---- MODULE Spec2Model ----
(***************************************************************************)
(* IfcTester facet evaluation core (src/src/ifctester/ifctester/facet.py). *)
(*                                                                         *)
(* The state is one Facet object, one Restriction object, the input of the *)
(* last operation and what that operation returned or raised.  Every       *)
(* method of facet.py that the properties below talk about is one          *)
(* operator, translated branch by branch; an operation that raises is an   *)
(* outcome with ret = "raise".  The collaborators of ifcopenshell (type    *)
(* lookup, property sets, classification references, containment,          *)
(* material) are inputs: an element is the record of what they return.     *)
(*                                                                         *)
(* Floats are whole numbers; the tolerance test is evaluated exactly (no   *)
(* rounding), see Outside.                                                 *)
(***************************************************************************)
EXTENDS Integers, Sequences, FiniteSets, TLC

VARIABLES
    op,            \* the last operation performed
    facet,         \* the Facet object (variant + attributes), or NoFacet
    facet0,        \* the Facet as it was right after construction / parse
    restriction,   \* the stand-alone Restriction object, or NoAttrs
    origin,        \* how `restriction` was made: "none", "init" or "parse"
    inp,           \* the input of the last operation
    out            \* the outcome of the last operation

vars == <<op, facet, facet0, restriction, origin, inp, out>>

(***************************************************************************)
(* Bounds of the model.                                                    *)
(***************************************************************************)
MaxChain == 2      \* longest chain of aggregation / nesting ancestors
MaxSteps == 6      \* passes of the ancestor walk that are counted and recorded

(***************************************************************************)
(* Python values.  One record shape for all of them, so that any two can   *)
(* be compared: t is type(v).__name__.                                     *)
(***************************************************************************)
None == [t |-> "NoneType", s |-> "", n |-> 0]
Str(s) == [t |-> "str", s |-> s, n |-> 0]
Float(n) == [t |-> "float", s |-> "", n |-> n]
IntV(n) == [t |-> "int", s |-> "", n |-> n]
Bool(b) == [t |-> "bool", s |-> "", n |-> IF b THEN 1 ELSE 0]
EmptyTuple == [t |-> "tuple", s |-> "", n |-> 0]
CharTuple(s) == [t |-> "tuple", s |-> IF s = "" THEN "" ELSE "chars:" \o s, n |-> 0]
EntityInstance(id) == [t |-> "entity_instance", s |-> id, n |-> 0]

Numeric == {"int", "float", "bool"}

\* Python ==: numbers compare by value across int, float and bool
PyEq(a, b) ==
    IF a.t \in Numeric /\ b.t \in Numeric THEN a.n = b.n
    ELSE a.t = b.t /\ a.s = b.s

\* Python truthiness
Truthy(v) ==
    CASE v.t = "NoneType" -> FALSE
      [] v.t \in Numeric -> v.n # 0
      [] v.t \in {"str", "tuple"} -> v.s # ""
      [] OTHER -> TRUE

(***************************************************************************)
(* Builtin conversions, as far as the literals of the model go.            *)
(***************************************************************************)
\* the literals float() accepts, with their value
FloatLits ==
    { <<"0", 0>>, <<"42", 42>>, <<"1e3", 1000>>,
      <<"1000000", 1000000>>, <<"-1000000", -1000000>> }

IsFloatLit(s) == \E p \in FloatLits : p[1] = s
FloatOf(s) == (CHOOSE p \in FloatLits : p[1] = s)[2]

\* str.lower() and str.upper()
CaseTable ==
    { <<"TRUE", "true", "TRUE">>, <<"True", "true", "TRUE">>,
      <<"true", "true", "TRUE">>, <<"FALSE", "false", "FALSE">>,
      <<"False", "false", "FALSE">>, <<"false", "false", "FALSE">>,
      <<"IfcWall", "ifcwall", "IFCWALL">>, <<"IFCWALL", "ifcwall", "IFCWALL">>,
      <<"IfcSlab", "ifcslab", "IFCSLAB">>, <<"IFCSLAB", "ifcslab", "IFCSLAB">>,
      <<"IfcBuilding", "ifcbuilding", "IFCBUILDING">>,
      <<"IFCBUILDING", "ifcbuilding", "IFCBUILDING">>,
      <<"IfcGroup", "ifcgroup", "IFCGROUP">>, <<"IFCGROUP", "ifcgroup", "IFCGROUP">>,
      <<"Foo", "foo", "FOO">>, <<"Bar", "bar", "BAR">>,
      <<"None", "none", "NONE">> }

Lower(s) == IF \E c \in CaseTable : c[1] = s
            THEN (CHOOSE c \in CaseTable : c[1] = s)[2] ELSE s
Upper(s) == IF \E c \in CaseTable : c[1] = s
            THEN (CHOOSE c \in CaseTable : c[1] = s)[3] ELSE s

\* str() of a non-negative whole number
RECURSIVE Digits(_)
Digits(n) ==
    LET d == <<"0", "1", "2", "3", "4", "5", "6", "7", "8", "9">>[(n % 10) + 1]
    IN IF n < 10 THEN d ELSE Digits(n \div 10) \o d

\* str(v)
PyStr(v) ==
    CASE v.t = "str" -> v.s
      [] v.t = "NoneType" -> "None"
      [] v.t = "bool" -> IF v.n = 1 THEN "True" ELSE "False"
      [] v.t = "int" -> IF v.n < 0 THEN "-" \o Digits(-v.n) ELSE Digits(v.n)
      [] v.t = "float" -> (IF v.n < 0 THEN "-" \o Digits(-v.n) ELSE Digits(v.n)) \o ".0"
      [] OTHER -> v.s

(***************************************************************************)
(* Outcomes of a call: a returned value or a raised exception.             *)
(***************************************************************************)
Return(v) == [ret |-> "return", exc |-> "", val |-> v]
Raise(e) == [ret |-> "raise", exc |-> e, val |-> None]

\* the type names that are keys of builtins.__dict__
Builtins == {"str", "float", "int", "bool", "tuple"}

(***************************************************************************)
(* cast_to_value(from_value, to_value); from_value is a str.               *)
(***************************************************************************)
cast_to_value(from_value, to_value) ==
    LET target_type == to_value.t IN
    IF target_type = "int"
    THEN IF IsFloatLit(from_value) THEN Return(Float(FloatOf(from_value)))
         ELSE Return(None)                       \* ValueError, swallowed
    ELSE IF target_type = "bool" /\ from_value = "TRUE" THEN Return(Bool(TRUE))
    ELSE IF target_type = "bool" /\ from_value = "FALSE" THEN Return(Bool(FALSE))
    ELSE IF target_type \notin Builtins THEN Raise("KeyError")
    ELSE CASE target_type = "float" ->
                IF IsFloatLit(from_value) THEN Return(Float(FloatOf(from_value)))
                ELSE Return(None)                \* ValueError, swallowed
           [] target_type = "bool" -> Return(Bool(from_value # ""))
           [] target_type = "str" -> Return(Str(from_value))
           [] OTHER -> Return(CharTuple(from_value))

(***************************************************************************)
(* Restriction objects.  options is a str (pattern), a list of str         *)
(* (enumeration, length) or a dict from bound name to threshold (bounds);  *)
(* init = FALSE is an object on which __init__ set no attribute at all.    *)
(***************************************************************************)
OptStr(s) == [k |-> "str", s |-> s, l |-> <<>>, d |-> <<>>]
OptList(l) == [k |-> "list", s |-> "", l |-> l, d |-> <<>>]
OptDict(d) == [k |-> "dict", s |-> "", l |-> <<>>, d |-> d]

NoAttrs == [init |-> FALSE, type |-> "", base |-> "", options |-> OptStr("")]
RObj(type, base, options) ==
    [init |-> TRUE, type |-> type, base |-> base, options |-> options]

ROk(obj) == [ret |-> "return", exc |-> "", obj |-> obj]
RRaise(e, obj) == [ret |-> "raise", exc |-> e, obj |-> obj]

\* Restriction.__init__(options, type, base)
Restriction_init(options, type, base) ==
    IF type \in {"enumeration", "pattern", "bounds"}
    THEN IF \/ (type = "enumeration" /\ options.k = "list")
            \/ (type = "bounds" /\ options.k = "dict")
            \/ (type = "pattern" /\ options.k = "str")
         THEN ROk(RObj(type, base, options))
         ELSE RRaise("Exception", RObj(type, base, options))
    ELSE ROk(NoAttrs)

\* Restriction(): the defaults options="", type="pattern", base="string"
DefaultRestriction == Restriction_init(OptStr(""), "pattern", "string").obj

(***************************************************************************)
(* Structured document fragments: a dict is a sequence of <<key, node>>    *)
(* in insertion order.  A node is a scalar, one object {"@value": v} or a  *)
(* list of objects {"@value": v [, "@fixed": False]}.                      *)
(***************************************************************************)
Entry(v) == [value |-> v, fixed |-> "absent"]
FixedEntry(v) == [value |-> v, fixed |-> "False"]
Scalar(v) == [k |-> "scalar", items |-> <<Entry(v)>>]
Obj(v) == [k |-> "obj", items |-> <<Entry(v)>>]
List(es) == [k |-> "list", items |-> es]

HasKey(d, key) == \E i \in 1..Len(d) : d[i][1] = key
Get(d, key) == d[CHOOSE i \in 1..Len(d) : d[i][1] = key][2]

\* dict == dict: the same keys with the same values, in any order
DictEq(a, b) == {a[i] : i \in 1..Len(a)} = {b[i] : i \in 1..Len(b)}

\* the declared base types
BaseNames == {"string", "boolean", "bool", "double"}

\* s[3:] of an "@base" value
Drop3(s) == IF \E b \in BaseNames : "xs:" \o b = s
            THEN CHOOSE b \in BaseNames : "xs:" \o b = s
            ELSE ""

\* the keys n with n[-7:] == "clusive"
ClusiveKeys ==
    {"minInclusive", "maxInclusive", "minExclusive", "maxExclusive",
     "xs:minInclusive", "xs:maxInclusive", "xs:minExclusive", "xs:maxExclusive"}
\* the keys n with n[-5:] == "ength"
EngthKeys == {"length", "minLength", "maxLength", "xs:length", "xs:minLength", "xs:maxLength"}
\* n[3:6] of such a key
Slice36(n) ==
    CASE n = "xs:minLength" -> "min"
      [] n = "xs:maxLength" -> "max"
      [] n = "xs:length" -> "len"
      [] n \in {"minLength", "maxLength"} -> "Len"
      [] OTHER -> "gth"

\* the loop body of Restriction.parse for the key d[i], then the rest
RECURSIVE ParseKeys(_, _, _)
ParseKeys(self, d, i) ==
    IF i > Len(d) THEN ROk(self)
    ELSE
    LET n == d[i][1]
        node == d[i][2]
    IN
    IF n = "enumeration"
    THEN IF node.k # "list"
         THEN RRaise("TypeError", [self EXCEPT !.type = "enumeration", !.options = OptList(<<>>)])
         ELSE ParseKeys([self EXCEPT !.type = "enumeration",
                              !.options = OptList([j \in 1..Len(node.items) |-> node.items[j].value.s])],
                        d, i + 1)
    ELSE IF n \in ClusiveKeys
    THEN \* self.options = {} and then self.options.append(...)
         RRaise("AttributeError", [self EXCEPT !.type = "bounds", !.options = OptDict(<<>>)])
    ELSE IF n \in EngthKeys
    THEN IF self.options.k # "list"
         THEN RRaise("AttributeError", [self EXCEPT !.type = "length"])
         ELSE IF node.k # "obj"
         THEN RRaise("TypeError", [self EXCEPT !.type = "length"])
         ELSE LET sign == IF Slice36(n) = "min" THEN ">="
                          ELSE IF Slice36(n) = "max" THEN "<=" ELSE "=="
              IN ParseKeys([self EXCEPT !.type = "length",
                                 !.options = OptList(Append(self.options.l,
                                                 sign \o PyStr(node.items[1].value)))],
                           d, i + 1)
    ELSE IF n = "pattern"
    THEN IF node.k # "obj"
         THEN RRaise("TypeError", [self EXCEPT !.type = "pattern"])
         ELSE ParseKeys([self EXCEPT !.type = "pattern",
                              !.options = OptStr(node.items[1].value.s)], d, i + 1)
    ELSE \* "@base": pass; anything else: reported, skipped
         ParseKeys(self, d, i + 1)

\* Restriction.parse(self, ids_dict)
Restriction_parse(self, ids_dict) ==
    IF Len(ids_dict) = 0 THEN ROk(self)
    ELSE LET base == IF HasKey(ids_dict, "@base")
                     THEN Drop3(Get(ids_dict, "@base").items[1].value.s)
                     ELSE "String"
         IN ParseKeys([self EXCEPT !.base = base], ids_dict, 1)

\* Restriction.asdict(self)
Restriction_asdict(self) ==
    IF ~self.init THEN Raise("AttributeError")
    ELSE
    LET head == <<"@base", Scalar(Str("xs:" \o self.base))>> IN
    CASE self.type = "enumeration" ->
            IF Len(self.options.l) = 0 THEN Return(<<head>>)
            ELSE Return(<<head, <<"xs:enumeration",
                     List([j \in 1..Len(self.options.l) |-> Entry(Str(self.options.l[j]))])>> >>)
      [] self.type = "bounds" ->
            Return(<<head>> \o
                   [j \in 1..Len(self.options.d) |->
                       <<"xs:" \o self.options.d[j][1],
                         List(<<FixedEntry(Str(PyStr(self.options.d[j][2])))>>)>>])
      [] self.type = "pattern" ->
            Return(<<head, <<"xs:pattern", List(<<Entry(Str(self.options.s))>>)>> >>)
      [] OTHER -> Return(<<head>>)

(***************************************************************************)
(* Restriction.__eq__(self, other): the match of a candidate value.        *)
(* The outcome carries the object too, since the match may assign to it.   *)
(***************************************************************************)
EqOk(b, obj) == [ret |-> "return", exc |-> "", val |-> b, obj |-> obj]
EqRaise(e, obj) == [ret |-> "raise", exc |-> e, val |-> FALSE, obj |-> obj]

\* re.compile(identities.translate_pattern(pattern)).fullmatch(s) is not None
FullMatches ==
    { <<"[A-Z]{2}-[0-9]{3}", "AB-123">>, <<"Fo+", "Foo">>,
      <<"IFC(WALL|SLAB)", "IFCWALL">>, <<"IFC(WALL|SLAB)", "IFCSLAB">>,
      <<"Na.*", "Name">>, <<"Pset_.*", "Pset_WallCommon">>, <<"Pset_.*", "Pset_Other">>,
      <<"Fire.*", "FireRating">>, <<"A1.*", "A1">>, <<"A1.*", "A1-1">> }
FullMatch(pattern, s) == <<pattern, s>> \in FullMatches

\* the comparison an option of a length restriction spells
LengthOps == { <<">=3", ">=", 3>>, <<"<=5", "<=", 5>>, <<"==4", "==", 4>> }
EvalLength(len, o) ==
    LET e == CHOOSE x \in LengthOps : x[1] = o IN
    CASE e[2] = ">=" -> len >= e[3]
      [] e[2] = "<=" -> len <= e[3]
      [] OTHER -> len = e[3]

BoundNames == {"minInclusive", "maxInclusive", "minExclusive", "maxExclusive"}

\* one bound violated by other (both numbers)
BoundFails(sign, other, t) ==
    \/ sign = "minInclusive" /\ other.n < t.n
    \/ sign = "maxInclusive" /\ other.n > t.n
    \/ sign = "minExclusive" /\ other.n <= t.n
    \/ sign = "maxExclusive" /\ other.n >= t.n

\* [x.lower() for x in self.options]
LowerAll(l) == [j \in 1..Len(l) |-> Lower(l[j])]

InSeq(x, l) == \E j \in 1..Len(l) : l[j] = x

Restriction_eq(self, other) ==
    IF ~(Truthy(other) \/ PyEq(other, IntV(0))) THEN EqOk(FALSE, self)
    ELSE IF ~self.init THEN EqRaise("AttributeError", self)
    ELSE IF self.type = "enumeration" /\ self.base = "bool"
    THEN LET lowered == [self EXCEPT !.options = OptList(LowerAll(self.options.l))]
         IN EqOk(InSeq(Lower(PyStr(other)), lowered.options.l), lowered)
    ELSE IF self.type = "enumeration"
    THEN IF Len(self.options.l) > 0 /\ cast_to_value(self.options.l[1], other).ret = "raise"
         THEN EqRaise("KeyError", self)
         ELSE EqOk(\E j \in 1..Len(self.options.l) :
                       PyEq(other, cast_to_value(self.options.l[j], other).val), self)
    ELSE IF self.type = "bounds"
    THEN LET signs == {j \in 1..Len(self.options.d) : self.options.d[j][1] \in BoundNames}
         IN IF signs # {} /\ other.t \notin Numeric THEN EqRaise("TypeError", self)
            ELSE EqOk(\A j \in signs :
                          ~BoundFails(self.options.d[j][1], other, self.options.d[j][2]), self)
    ELSE IF self.type = "length"
    THEN IF Len(self.options.l) = 0 THEN EqOk(FALSE, self)
         ELSE IF other.t # "str" THEN EqRaise("TypeError", self)
         ELSE IF \E j \in 1..Len(self.options.l) :
                    ~\E x \in LengthOps : x[1] = self.options.l[j]
         THEN EqRaise("SyntaxError", self)
         ELSE EqOk(\E j \in 1..Len(self.options.l) :
                       EvalLength(Len(other.s), self.options.l[j]), self)
    ELSE IF self.type = "pattern"
    THEN IF self.options.k = "list" /\ Len(self.options.l) = 0
         THEN EqRaise("IndexError", self)
         ELSE IF other.t # "str" THEN EqRaise("TypeError", self)
         ELSE EqOk(FullMatch(IF self.options.k = "list" THEN self.options.l[1]
                             ELSE self.options.s, other.s), self)
    ELSE EqOk(FALSE, self)

(***************************************************************************)
(* Facet objects: the variant and one slot per attribute.  A slot is       *)
(* unset (no such attribute), a plain value (None, str, int), one          *)
(* Restriction, a list of Restrictions, or a raw dict that parse stored.   *)
(***************************************************************************)
Unset == [k |-> "unset", v |-> None, rs |-> <<>>, rd |-> <<>>]
Val(v) == [k |-> "val", v |-> v, rs |-> <<>>, rd |-> <<>>]
Restr(r) == [k |-> "restr", v |-> None, rs |-> <<r>>, rd |-> <<>>]
RList(rs) == [k |-> "list", v |-> None, rs |-> rs, rd |-> <<>>]
RawDict(rd) == [k |-> "dict", v |-> None, rs |-> <<>>, rd |-> rd]

AttrNames ==
    {"name", "predefinedType", "instructions", "value", "minOccurs", "maxOccurs",
     "system", "uri", "entity", "relation", "propertySet", "measure"}

\* self.parameters of each variant, in order
Parameters(variant) ==
    CASE variant = "Entity" -> <<"name", "predefinedType", "@instructions">>
      [] variant = "Attribute" ->
            <<"name", "value", "@minOccurs", "@maxOccurs", "@instructions">>
      [] variant = "Classification" ->
            <<"value", "system", "@uri", "@minOccurs", "@maxOccurs", "@instructions">>
      [] variant = "PartOf" ->
            <<"entity", "@relation", "@minOccurs", "@maxOccurs", "@instructions">>
      [] variant = "Property" ->
            <<"propertySet", "name", "value", "@measure", "@uri", "@minOccurs",
              "@maxOccurs", "@instructions">>
      [] variant = "Material" ->
            <<"value", "@uri", "@minOccurs", "@maxOccurs", "@instructions">>
      [] OTHER -> <<>>

\* name.replace("@", "")
StripAt(name) ==
    IF \E a \in AttrNames : "@" \o a = name
    THEN CHOOSE a \in AttrNames : "@" \o a = name
    ELSE name
\* "@" in name
HasAt(name) == \E a \in AttrNames : "@" \o a = name

Variants == {"Entity", "Attribute", "Classification", "PartOf", "Property", "Material"}

NoFacet == [variant |-> "none", attrs |-> [a \in AttrNames |-> Unset]]

\* Facet.__init__(self, *parameters): setattr for each parameter in order
Facet_init(variant, parameters) ==
    [variant |-> variant,
     attrs |-> [a \in AttrNames |->
                  IF \E i \in 1..Len(Parameters(variant)) : StripAt(Parameters(variant)[i]) = a
                  THEN parameters[CHOOSE i \in 1..Len(Parameters(variant)) :
                                      StripAt(Parameters(variant)[i]) = a]
                  ELSE Unset]]

\* bool(parameter), isinstance(parameter, str), parameter == 0
SlotTruthy(slot) ==
    CASE slot.k = "val" -> Truthy(slot.v)
      [] slot.k = "restr" -> TRUE
      [] slot.k = "list" -> Len(slot.rs) > 0
      [] slot.k = "dict" -> Len(slot.rd) > 0
      [] OTHER -> FALSE
IsStr(slot) == slot.k = "val" /\ slot.v.t = "str"
IsZero(slot) == slot.k = "val" /\ PyEq(slot.v, IntV(0))

\* candidate == parameter (or parameter == candidate): a Restriction answers
\* with its __eq__, a list or a dict equals no candidate
ParamEq(slot, candidate) ==
    CASE slot.k = "val" -> EqOk(PyEq(slot.v, candidate), NoAttrs)
      [] slot.k = "restr" -> Restriction_eq(slot.rs[1], candidate)
      [] OTHER -> EqOk(FALSE, NoAttrs)

\* the parameter after it was compared with candidate
SlotAfterEq(slot, candidate) ==
    IF slot.k = "restr" THEN Restr(Restriction_eq(slot.rs[1], candidate).obj) ELSE slot

(***************************************************************************)
(* Results.  reason is None or a dict with "type" and, for most tags,      *)
(* "actual": one value, or a list or set of values.                        *)
(***************************************************************************)
NoReason == [present |-> FALSE, type |-> "", shape |-> "none", actual |-> <<>>]
Reason(type) == [present |-> TRUE, type |-> type, shape |-> "none", actual |-> <<>>]
ReasonActual(type, v) == [present |-> TRUE, type |-> type, shape |-> "value", actual |-> <<v>>]
ReasonList(type, vs) == [present |-> TRUE, type |-> type, shape |-> "list", actual |-> vs]

\* Result(is_pass, reason), with what the evaluation read from the element
\* (reads) and which candidates it compared with which parameter (cmps)
Result(is_pass, reason, reads, cmps) ==
    [ret |-> "return", exc |-> "", is_pass |-> is_pass, reason |-> reason,
     reads |-> reads, cmps |-> cmps]
Raised(e, reads, cmps) ==
    [ret |-> "raise", exc |-> e, is_pass |-> FALSE, reason |-> NoReason,
     reads |-> reads, cmps |-> cmps]

(***************************************************************************)
(* Model elements: what the collaborators return for one element.          *)
(*   is_a, predefined_type     inst.is_a(), get_predefined_type(inst)      *)
(*   info                      the attributes: name, value and declared    *)
(*                             kind ("inverse": an inverse attribute;      *)
(*                             "derived": attribute_type raises for it)    *)
(*   has_type, type_info       get_type(inst) and its attributes           *)
(*   references, inherited     get_references / get_inherited_references   *)
(*   aggregates, nests         the chains of get_aggregate / Nests parents *)
(*   assignments, container    HasAssignments, get_container               *)
(*   psets                     the property sets with their HasProperties  *)
(*   material                  get_material(inst, should_skip_usage=True)  *)
(***************************************************************************)
AttrRec(name, value, kind) == [name |-> name, value |-> value, kind |-> kind]

NoMaterial == [kind |-> "none", Name |-> None, Category |-> None, items |-> <<>>]

BaseElement ==
    [is_a |-> "IfcWall", predefined_type |-> None,
     info |-> <<>>, has_type |-> FALSE, type_info |-> <<>>,
     references |-> <<>>, inherited |-> <<>>,
     aggregates |-> <<>>, nests |-> <<>>, assignments |-> <<>>, container |-> "",
     psets |-> <<>>, material |-> NoMaterial]

\* getattr(obj, name, None)
RECURSIVE Lookup(_, _)
Lookup(info, name) ==
    IF Len(info) = 0 THEN None
    ELSE IF Head(info).name = name THEN Head(info).value
    ELSE Lookup(Tail(info), name)

\* obj.get_info(): id, type and the forward attributes
GetInfo(id, type, info) ==
    <<AttrRec("id", IntV(id), "derived"), AttrRec("type", Str(type), "derived")>>
    \o SelectSeq(info, LAMBDA a : a.kind # "inverse")

HasName(info, name) == \E i \in 1..Len(info) : info[i].name = name

\* info = element_type.get_info(); info.update(the occurrence's non-None items)
MergedInfo(type_info, inst_info) ==
    [i \in 1..Len(type_info) |->
        IF Lookup(inst_info, type_info[i].name).t # "NoneType"
        THEN [type_info[i] EXCEPT !.value = Lookup(inst_info, type_info[i].name)]
        ELSE type_info[i]]
    \o SelectSeq(inst_info, LAMBDA a : a.value.t # "NoneType" /\ ~HasName(type_info, a.name))

\* inst.attribute_type(inst.wrapped_data.get_argument_index(name)), or how it fails
KindOf(inst, name) ==
    IF \E i \in 1..Len(inst.info) : inst.info[i].name = name
    THEN inst.info[CHOOSE i \in 1..Len(inst.info) : inst.info[i].name = name].kind
    ELSE "derived"

(***************************************************************************)
(* The cardinality prologue and epilogue shared by the five variants that  *)
(* have minOccurs and maxOccurs.                                           *)
(***************************************************************************)
\* the prologue with the two cardinalities taken for each other
IsOptional_Swapped(self) ==
    IsZero(self.attrs["maxOccurs"]) /\ ~IsZero(self.attrs["minOccurs"])

\* self.minOccurs == 0 and self.maxOccurs != 0
IsOptional(self) == IsZero(self.attrs["minOccurs"]) /\ ~IsZero(self.attrs["maxOccurs"])

\* the epilogue without the test of maxOccurs
Finish_NoInvert(self, is_pass, reason, reads, cmps) ==
    Result(is_pass, reason, reads, cmps)

\* the epilogue that forgets the reason of a failure
Finish_NoReason(self, is_pass, reason, reads, cmps) ==
    IF IsZero(self.attrs["maxOccurs"])
    THEN Result(~is_pass, Reason("PROHIBITED"), reads, cmps)
    ELSE Result(is_pass, NoReason, reads, cmps)

\* if self.maxOccurs == 0: return Result(not is_pass, {"type": "PROHIBITED"})
\* return Result(is_pass, reason)
Finish(self, is_pass, reason, reads, cmps) ==
    IF IsZero(self.attrs["maxOccurs"])
    THEN Result(~is_pass, Reason("PROHIBITED"), reads, cmps)
    ELSE Result(is_pass, reason, reads, cmps)

(***************************************************************************)
(* Entity.__call__                                                         *)
(***************************************************************************)
\* the evaluation without the predefined type: only the class is compared
Entity_call_NoType(self, inst) ==
    IF ParamEq(self.attrs["name"], Str(Upper(inst.is_a))).ret = "raise"
    THEN Raised(ParamEq(self.attrs["name"], Str(Upper(inst.is_a))).exc, {"is_a"},
                {<<"name", Str(Upper(inst.is_a))>>})
    ELSE IF ~ParamEq(self.attrs["name"], Str(Upper(inst.is_a))).val
    THEN Result(FALSE, ReasonActual("NAME", Str(Upper(inst.is_a))), {"is_a"},
                {<<"name", Str(Upper(inst.is_a))>>})
    ELSE Result(TRUE, NoReason, {"is_a"}, {<<"name", Str(Upper(inst.is_a))>>})

Entity_call(self, inst) ==
    LET actual == Str(Upper(inst.is_a))
        n == ParamEq(self.attrs["name"], actual)
        p == ParamEq(self.attrs["predefinedType"], inst.predefined_type)
        c1 == {<<"name", actual>>}
        c2 == c1 \cup {<<"predefinedType", inst.predefined_type>>}
    IN
    IF n.ret = "raise" THEN Raised(n.exc, {"is_a"}, c1)
    ELSE IF ~n.val THEN Result(FALSE, ReasonActual("NAME", actual), {"is_a"}, c1)
    ELSE IF ~SlotTruthy(self.attrs["predefinedType"]) THEN Result(TRUE, NoReason, {"is_a"}, c1)
    ELSE IF p.ret = "raise" THEN Raised(p.exc, {"is_a", "get_predefined_type"}, c2)
    ELSE IF ~p.val
    THEN Result(FALSE, ReasonActual("PREDEFINEDTYPE", inst.predefined_type),
                {"is_a", "get_predefined_type"}, c2)
    ELSE Result(TRUE, NoReason, {"is_a", "get_predefined_type"}, c2)

(***************************************************************************)
(* The comparison of one candidate with the expected value, as Attribute   *)
(* and Property make it.                                                   *)
(***************************************************************************)
Million == 1000000
Clamp == 2000

\* value < cast_value * (1.0 - 1e-6) or value > cast_value * (1.0 + 1e-6),
\* multiplied out by 10^6: (v - c) * 10^6 < -c  or  (v - c) * 10^6 > c.
\* A difference beyond Clamp decides by its sign (all numbers are below
\* Clamp * 10^6 in size), which keeps the products within 32 bits.
\* The candidates of the model are those for which the double products
\* cast_value * (1.0 - 1e-6) and cast_value * (1.0 + 1e-6) decide as the
\* exact ones do (10^6 * (1.0 - 1e-6) is the double 999999.0).
Outside(value, cast_value) ==
    LET d == value - cast_value
        dd == IF d > Clamp THEN Clamp + 1 ELSE IF d < -Clamp THEN -(Clamp + 1) ELSE d
    IN dd * Million < -cast_value \/ dd * Million > cast_value

\* the comparison of a candidate that is no str with cast_value, the outcome
\* of cast_to_value(self.value, value)
CastMismatch(value, cast_value) ==
    IF cast_value.ret = "raise" THEN EqRaise(cast_value.exc, NoAttrs)
    ELSE IF value.t = "float" /\ cast_value.val.t = "float"
    THEN EqOk(Outside(value.n, cast_value.val.n), NoAttrs)
    ELSE EqOk(~PyEq(value, cast_value.val), NoAttrs)

\* value != self.value, from the outcome of value == self.value
NotEq(e) == [e EXCEPT !.val = ~e.val]

\* TRUE when the candidate does not match the expected value
ValueMismatch(expected, value) ==
    IF IsStr(expected) /\ value.t = "str" THEN EqOk(value.s # expected.v.s, NoAttrs)
    ELSE IF IsStr(expected) THEN CastMismatch(value, cast_to_value(expected.v.s, value))
    ELSE NotEq(ParamEq(expected, value))

\* the comparison of each candidate with the expected value
Mismatches(expected, values) ==
    [i \in 1..Len(values) |-> ValueMismatch(expected, values[i])]

\* the candidates compared with a Restriction parameter by ValueMismatch
ValueCmps(expected, values, upto) ==
    IF IsStr(expected) THEN {}
    ELSE {<<"value", values[j]>> : j \in 1..upto}

(***************************************************************************)
(* Attribute.__call__                                                      *)
(***************************************************************************)
\* the (name, value) candidates resolved for the facet's name
AttributeCandidates(self, inst) ==
    IF IsStr(self.attrs["name"])
    THEN LET name == self.attrs["name"].v.s
             type_value == IF inst.has_type THEN Lookup(inst.type_info, name) ELSE None
             occurrence_value == Lookup(inst.info, name)
         IN <<AttrRec(name, IF occurrence_value.t # "NoneType" THEN occurrence_value
                            ELSE type_value, "")>>
    ELSE LET info == IF inst.has_type
                     THEN MergedInfo(GetInfo(2, "IfcWallType", inst.type_info),
                                     GetInfo(1, inst.is_a, inst.info))
                     ELSE GetInfo(1, inst.is_a, inst.info)
         IN SelectSeq(info, LAMBDA a : ParamEq(self.attrs["name"], Str(a.name)).val)

\* the check of a candidate that knows None only
CandidateFault_OnlyNone(inst, c) ==
    IF c.value.t = "NoneType" THEN ReasonActual("FALSEY", c.value)
    ELSE IF KindOf(inst, c.name) = "inverse" THEN Reason("INVALID")
    ELSE NoReason

\* the reason why one candidate is no usable value, or NoReason
CandidateFault(inst, c) ==
    IF c.value.t = "NoneType" \/ PyEq(c.value, Str("")) \/ PyEq(c.value, EmptyTuple)
    THEN ReasonActual("FALSEY", c.value)
    ELSE IF KindOf(inst, c.name) = "LOGICAL" /\ PyEq(c.value, Str("UNKNOWN"))
    THEN ReasonActual("FALSEY", c.value)
    ELSE IF KindOf(inst, c.name) = "inverse" THEN Reason("INVALID")
    ELSE NoReason

\* the first index of a sequence that satisfies Bad, or 0
FirstIndex(n, Bad(_)) ==
    IF \E i \in 1..n : Bad(i) THEN CHOOSE i \in 1..n : Bad(i) /\ \A j \in 1..(i - 1) : ~Bad(j)
    ELSE 0

\* the loop over the candidate values: the first one that is a structured
\* reference or that does not match leaves it (ms: the comparison of each)
AttributeValues(self, values, reads, ncmps, ms) ==
    LET expected == self.attrs["value"]
        bad == FirstIndex(Len(values), LAMBDA i :
                    \/ values[i].t = "entity_instance"
                    \/ ms[i].ret = "raise"
                    \/ ms[i].val)
    IN
    IF bad = 0
    THEN Finish(self, TRUE, NoReason, reads, ncmps \cup ValueCmps(expected, values, Len(values)))
    ELSE IF values[bad].t = "entity_instance"
    THEN Finish(self, FALSE, ReasonActual("VALUE", values[bad]), reads,
                ncmps \cup ValueCmps(expected, values, bad - 1))
    ELSE IF ms[bad].ret = "raise"
    THEN Raised(ms[bad].exc, reads, ncmps \cup ValueCmps(expected, values, bad))
    ELSE Finish(self, FALSE, ReasonActual("VALUE", values[bad]), reads,
                ncmps \cup ValueCmps(expected, values, bad))

\* the checks made on the candidates cands resolved for the name
AttributeCheck(self, inst, cands) ==
    LET values == [i \in 1..Len(cands) |-> cands[i].value]
        reads == {"get_type"} \cup (IF IsStr(self.attrs["name"]) THEN {"getattr"} ELSE {"get_info"})
        ncmps == IF IsStr(self.attrs["name"]) THEN {}
                 ELSE {<<"name", Str("id")>>, <<"name", Str("type")>>}
                      \cup {<<"name", Str(inst.info[i].name)>> : i \in 1..Len(inst.info)}
        fault == FirstIndex(Len(cands), LAMBDA i : CandidateFault(inst, cands[i]).present)
    IN
    IF Len(cands) = 0 THEN Finish(self, FALSE, Reason("NOVALUE"), reads, ncmps)
    ELSE IF fault # 0
    THEN Finish(self, FALSE, CandidateFault(inst, cands[fault]),
                reads \cup {"attribute_type"}, ncmps)
    ELSE IF ~SlotTruthy(self.attrs["value"])
    THEN Finish(self, TRUE, NoReason, reads \cup {"attribute_type"}, ncmps)
    ELSE AttributeValues(self, values, reads \cup {"attribute_type"}, ncmps,
                         Mismatches(self.attrs["value"], values))

\* name is no str: the names of the element's attributes are compared with
\* it, "id" first (e: the outcome of that comparison)
AttributeByNames(self, inst, e) ==
    IF e.ret = "raise" THEN Raised(e.exc, {"get_type", "get_info"}, {<<"name", Str("id")>>})
    ELSE AttributeCheck(self, inst, AttributeCandidates(self, inst))

Attribute_call(self, inst) ==
    IF IsOptional(self) THEN Result(TRUE, NoReason, {}, {})
    ELSE IF ~IsStr(self.attrs["name"])
    THEN AttributeByNames(self, inst, ParamEq(self.attrs["name"], Str("id")))
    ELSE AttributeCheck(self, inst, AttributeCandidates(self, inst))

(***************************************************************************)
(* Classification.__call__                                                 *)
(***************************************************************************)
\* a loop that compares the values in turn with the parameter name and is
\* left at the first one that matches (es: the outcome of each comparison):
\* the index it stopped at (0: no match), or the comparison that raised
Scan(name, values, es) ==
    LET stop == FirstIndex(Len(values), LAMBDA i : es[i].ret = "raise" \/ es[i].val)
    IN [stop |-> stop,
        raised |-> stop # 0 /\ es[stop].ret = "raise",
        exc |-> IF stop = 0 THEN "" ELSE es[stop].exc,
        cmps |-> {<<name, values[i]>> : i \in 1..(IF stop = 0 THEN Len(values) ELSE stop)}]

\* any([parameter == v for v in values]): every comparison is made
AnyOf(es) ==
    IF \E i \in 1..Len(es) : es[i].ret = "raise"
    THEN EqRaise(es[CHOOSE i \in 1..Len(es) : es[i].ret = "raise"].exc, NoAttrs)
    ELSE EqOk(\E i \in 1..Len(es) : es[i].val, NoAttrs)

AnyEq(slot, values) == AnyOf([i \in 1..Len(values) |-> ParamEq(slot, values[i])])

Cmps(name, values) == {<<name, values[i]>> : i \in 1..Len(values)}

\* the checks made on the references of the element: v and sy are the
\* outcomes of the comparisons with value and with system
ClassificationCheck(self, values, systems, v, sy) ==
    LET reads == {"get_references"}
        c1 == IF SlotTruthy(self.attrs["value"]) THEN Cmps("value", values) ELSE {}
        c2 == c1 \cup Cmps("system", systems)
    IN
    IF Len(values) = 0 THEN Finish(self, FALSE, Reason("NOVALUE"), reads, {})
    ELSE IF SlotTruthy(self.attrs["value"]) /\ v.ret = "raise" THEN Raised(v.exc, reads, c1)
    ELSE IF SlotTruthy(self.attrs["value"]) /\ ~v.val
    THEN Finish(self, FALSE, ReasonList("VALUE", values), reads, c1)
    ELSE IF ~SlotTruthy(self.attrs["system"]) THEN Finish(self, TRUE, NoReason, reads, c1)
    ELSE IF sy.ret = "raise" THEN Raised(sy.exc, reads \cup {"get_classification"}, c2)
    ELSE IF ~sy.val
    THEN Finish(self, FALSE, ReasonList("SYSTEM", systems),
                reads \cup {"get_classification"}, c2)
    ELSE Finish(self, TRUE, NoReason, reads \cup {"get_classification"}, c2)

\* the ids and the systems of the references
ReferenceIds(references) == [i \in 1..Len(references) |-> references[i].id]
ReferenceSystems(references) == [i \in 1..Len(references) |-> references[i].system]

Classification_call(self, inst) ==
    IF IsOptional(self) THEN Result(TRUE, NoReason, {}, {})
    ELSE ClassificationCheck(self, ReferenceIds(inst.references \o inst.inherited),
                             ReferenceSystems(inst.references \o inst.inherited),
                             AnyEq(self.attrs["value"],
                                   ReferenceIds(inst.references \o inst.inherited)),
                             AnyEq(self.attrs["system"],
                                   ReferenceSystems(inst.references \o inst.inherited)))

(***************************************************************************)
(* PartOf.__call__                                                         *)
(***************************************************************************)
\* the upper-cased types of the ancestors
ChainTypesOf(chain) == [i \in 1..Len(chain) |-> Str(Upper(chain[i]))]

\* the walk that looks at the immediate parent only
Walk_ParentOnly(self, chain) ==
    Scan("entity", SubSeq(ChainTypesOf(chain), 1, IF Len(chain) = 0 THEN 0 ELSE 1),
         [i \in 1..(IF Len(chain) = 0 THEN 0 ELSE 1) |->
             ParamEq(self.attrs["entity"], ChainTypesOf(chain)[i])])

\* the while loop over the ancestors: the index of the first one whose type
\* matches entity (0: none), or the comparison that raised
Walk(self, chain) ==
    Scan("entity", ChainTypesOf(chain),
             [i \in 1..Len(chain) |-> ParamEq(self.attrs["entity"], ChainTypesOf(chain)[i])])

\* the outcome of the aggregation and of the nesting branch after the walk w
ChainResult(self, chain, read, noparent, w) ==
    IF Len(chain) = 0 THEN Finish(self, FALSE, Reason(noparent), {read}, {})
    ELSE IF ~SlotTruthy(self.attrs["entity"]) THEN Finish(self, TRUE, NoReason, {read}, {})
    ELSE IF w.raised THEN Raised(w.exc, {read}, w.cmps)
    ELSE IF w.stop # 0 THEN Finish(self, TRUE, NoReason, {read}, w.cmps)
    ELSE Finish(self, FALSE, ReasonList("ENTITY", [i \in 1..Len(chain) |-> Str(chain[i])]),
                {read}, w.cmps)

\* the aggregation and the nesting branch: they differ in the chain walked
\* and in the reason given when the element has no parent
PartOf_chain(self, chain, read, noparent) ==
    ChainResult(self, chain, read, noparent, Walk(self, chain))

\* the outcome of the group and of the container branch after the
\* comparison e of the whole's type (actual) with entity
SingleResult(self, whole, read, nowhole, actual, e) ==
    IF whole = "" THEN Finish(self, FALSE, Reason(nowhole), {read}, {})
    ELSE IF ~SlotTruthy(self.attrs["entity"]) THEN Finish(self, TRUE, NoReason, {read}, {})
    ELSE IF e.ret = "raise" THEN Raised(e.exc, {read}, {<<"entity", actual>>})
    ELSE IF ~e.val
    THEN Finish(self, FALSE, ReasonActual("ENTITY", actual), {read}, {<<"entity", actual>>})
    ELSE Finish(self, TRUE, NoReason, {read}, {<<"entity", actual>>})

\* the group and the container branch: one whole ("" when there is none)
PartOf_single(self, whole, read, nowhole) ==
    SingleResult(self, whole, read, nowhole, Str(Upper(whole)),
                 ParamEq(self.attrs["entity"], Str(Upper(whole))))

\* the RelatingGroup of the first IfcRelAssignsToGroup among HasAssignments
FirstGroup(assignments) ==
    LET i == FirstIndex(Len(assignments), LAMBDA j : assignments[j].is_a = "IfcRelAssignsToGroup")
    IN IF i = 0 THEN "" ELSE assignments[i].group

RelationIs(self, relation) ==
    self.attrs["relation"].k = "val" /\ PyEq(self.attrs["relation"].v, Str(relation))

PartOf_call(self, inst) ==
    IF IsOptional(self) THEN Result(TRUE, NoReason, {}, {})
    ELSE IF RelationIs(self, "IfcRelAggregates")
    THEN PartOf_chain(self, inst.aggregates, "get_aggregate", "RELATION")
    ELSE IF RelationIs(self, "IfcRelAssignsToGroup")
    THEN PartOf_single(self, FirstGroup(inst.assignments), "HasAssignments", "NOVALUE")
    ELSE IF RelationIs(self, "IfcRelContainedInSpatialStructure")
    THEN PartOf_single(self, inst.container, "get_container", "RELATION")
    ELSE IF RelationIs(self, "IfcRelNests")
    THEN PartOf_chain(self, inst.nests, "Nests", "NOVALUE")
    ELSE \* no branch assigned is_pass
         Raised("UnboundLocalError", {}, {})

(***************************************************************************)
(* Material.__call__                                                       *)
(***************************************************************************)
Item(Name, Category, MName, MCategory) ==
    [Name |-> Name, Category |-> Category, MName |-> MName, MCategory |-> MCategory]

HandledMaterials ==
    {"IfcMaterial", "IfcMaterialList", "IfcMaterialLayerSet", "IfcMaterialProfileSet",
     "IfcMaterialConstituentSet"}

RECURSIVE Flatten(_)
Flatten(ss) == IF Len(ss) = 0 THEN <<>> ELSE Head(ss) \o Flatten(Tail(ss))

\* the names and categories collected from a material of a handled kind
MaterialValues(material) ==
    CASE material.kind = "IfcMaterial" -> <<material.Name, material.Category>>
      [] material.kind = "IfcMaterialList" ->
            Flatten([i \in 1..Len(material.items) |->
                        <<material.items[i].MName, material.items[i].MCategory>>])
      [] OTHER ->
            <<material.Name>> \o
            Flatten([i \in 1..Len(material.items) |->
                        <<material.items[i].Name, material.items[i].Category,
                          material.items[i].MName, material.items[i].MCategory>>])

\* the outcome after the loop m over the collected values.  The code keeps
\* them in a set, which it iterates in no fixed order; the order changes
\* neither is_pass nor an error: a Restriction that raises does so on the
\* first str, and no value before it can match.
MaterialCheck(self, material, values, m) ==
    LET reads == {"get_material"} IN
    IF material.kind = "none" THEN Finish(self, FALSE, Reason("NOVALUE"), reads, {})
    ELSE IF ~SlotTruthy(self.attrs["value"]) THEN Finish(self, TRUE, NoReason, reads, {})
    ELSE IF material.kind \notin HandledMaterials
    THEN \* no branch assigned values
         Raised("UnboundLocalError", reads, {})
    ELSE IF m.raised THEN Raised(m.exc, reads, m.cmps)
    ELSE IF m.stop = 0 THEN Finish(self, FALSE, ReasonList("VALUE", values), reads, m.cmps)
    ELSE Finish(self, TRUE, NoReason, reads, m.cmps)

Material_call(self, inst) ==
    IF IsOptional(self) THEN Result(TRUE, NoReason, {}, {})
    ELSE MaterialCheck(self, inst.material, MaterialValues(inst.material),
                       Scan("value", MaterialValues(inst.material),
                            [i \in 1..Len(MaterialValues(inst.material)) |->
                                ParamEq(self.attrs["value"], MaterialValues(inst.material)[i])]))

(***************************************************************************)
(* Property.__call__                                                       *)
(*                                                                         *)
(* A property set of an element is its name, its id and its HasProperties: *)
(* each property has a Name, is an IfcPropertySingleValue or not, has a    *)
(* NominalValue (its type tag; "" for None) wrapping a value, and a unit   *)
(* (factor: what unit.convert multiplies the value by; 0 for no unit).     *)
(***************************************************************************)
Prop(Name, single, nominal, wrapped, factor) ==
    [Name |-> Name, single |-> single, nominal |-> nominal, wrapped |-> wrapped,
     factor |-> factor]
Pset(name, id, props) == [name |-> name, id |-> id, props |-> props]

\* get_psets(inst)[pset.name]: property name -> value, and the id
PsetProps(pset) ==
    [i \in 1..Len(pset.props) |->
        AttrRec(pset.props[i].Name,
                IF pset.props[i].single /\ pset.props[i].nominal = "" THEN None
                ELSE pset.props[i].wrapped, "")]
    \o <<AttrRec("id", IntV(pset.id), "")>>

\* props[pset_name] before the units are applied
ResolvedProps(self, pset) ==
    IF IsStr(self.attrs["name"])
    THEN LET name == self.attrs["name"].v.s
             prop == Lookup(PsetProps(pset), name)
             entity == pset.props[CHOOSE i \in 1..Len(pset.props) : pset.props[i].Name = name]
         IN IF PyEq(prop, Str("UNKNOWN")) /\ entity.nominal = "IfcLogical" THEN <<>>
            ELSE IF prop.t # "NoneType" /\ ~PyEq(prop, Str("")) THEN <<AttrRec(name, prop, "")>>
            ELSE <<>>
    ELSE SelectSeq(PsetProps(pset), LAMBDA a : ParamEq(self.attrs["name"], Str(a.name)).val)

\* the HasProperties whose declared type is compared with measure
Measured(pset, props) ==
    SelectSeq(pset.props, LAMBDA e : HasName(props, e.Name) /\ e.single /\ e.nominal # "")

\* props[pset_name] with the values of the properties that have a unit converted
Converted(pset, props) ==
    [i \in 1..Len(props) |->
        IF \E j \in 1..Len(pset.props) :
              /\ pset.props[j].Name = props[i].name
              /\ pset.props[j].single /\ pset.props[j].nominal # ""
              /\ pset.props[j].factor # 0
        THEN LET e == pset.props[CHOOSE j \in 1..Len(pset.props) :
                                    /\ pset.props[j].Name = props[i].name
                                    /\ pset.props[j].single /\ pset.props[j].nominal # ""
                                    /\ pset.props[j].factor # 0]
             IN [props[i] EXCEPT !.value = Float(e.wrapped.n * e.factor)]
        ELSE props[i]]

\* one pass of the loop over the selected property sets:
\*   raise    an exception left the call
\*   stop     the loop was left (break)
\*   fail     is_pass was set to False, with reason
PsetStep(raise, exc, stop, fail, reason, cmps) ==
    [raise |-> raise, exc |-> exc, stop |-> stop, fail |-> fail, reason |-> reason,
     cmps |-> cmps]

\* the loop over the values of the resolved properties (ms: the comparison
\* of each with value)
PsetValues(expected, values, ncmps, ms) ==
    LET bad == FirstIndex(Len(values), LAMBDA i : ms[i].ret = "raise" \/ ms[i].val)
        vcmps == ncmps \cup ValueCmps(expected, values, IF bad = 0 THEN Len(values) ELSE bad)
    IN
    IF bad = 0 THEN PsetStep(FALSE, "", FALSE, FALSE, NoReason, vcmps)
    ELSE IF ms[bad].ret = "raise"
    THEN PsetStep(TRUE, ms[bad].exc, TRUE, FALSE, NoReason, vcmps)
    ELSE PsetStep(FALSE, "", FALSE, TRUE, ReasonActual("VALUE", values[bad]), vcmps)

\* the checks of one property set that compare the declared type only when
\* measure is given
PsetCheck_MeasureGiven(self, pset, is_pass, props, ncmps) ==
    LET measured == Measured(pset, props)
        wrong == IF self.attrs["measure"] = Val(None) THEN 0
                 ELSE FirstIndex(Len(measured), LAMBDA i :
                        ~ParamEq(self.attrs["measure"], Str(measured[i].nominal)).val)
        values == [i \in 1..Len(props) |-> Converted(pset, props)[i].value]
    IN
    IF Len(props) = 0 THEN PsetStep(FALSE, "", TRUE, TRUE, Reason("NOVALUE"), ncmps)
    ELSE IF wrong # 0
    THEN PsetStep(FALSE, "", TRUE, TRUE, ReasonActual("MEASURE", Str(measured[wrong].nominal)),
                  ncmps)
    ELSE IF ~is_pass THEN PsetStep(FALSE, "", TRUE, FALSE, NoReason, ncmps)
    ELSE IF ~SlotTruthy(self.attrs["value"])
    THEN PsetStep(FALSE, "", FALSE, FALSE, NoReason, ncmps)
    ELSE PsetValues(self.attrs["value"], values, ncmps, Mismatches(self.attrs["value"], values))

\* the checks made on the properties props resolved in one property set
PsetCheck(self, pset, is_pass, props, ncmps) ==
    LET measured == Measured(pset, props)
        wrong == FirstIndex(Len(measured), LAMBDA i :
                    ~ParamEq(self.attrs["measure"], Str(measured[i].nominal)).val)
        values == [i \in 1..Len(props) |-> Converted(pset, props)[i].value]
    IN
    IF Len(props) = 0 THEN PsetStep(FALSE, "", TRUE, TRUE, Reason("NOVALUE"), ncmps)
    ELSE IF wrong # 0
    THEN PsetStep(FALSE, "", TRUE, TRUE, ReasonActual("MEASURE", Str(measured[wrong].nominal)),
                  ncmps)
    ELSE IF ~is_pass
    THEN \* an earlier property set failed its value comparison
         PsetStep(FALSE, "", TRUE, FALSE, NoReason, ncmps)
    ELSE IF ~SlotTruthy(self.attrs["value"])
    THEN PsetStep(FALSE, "", FALSE, FALSE, NoReason, ncmps)
    ELSE PsetValues(self.attrs["value"], values, ncmps, Mismatches(self.attrs["value"], values))

\* name is no str: the names of the property set are compared with it (e:
\* the outcome of the first comparison)
PsetByNames(self, pset, is_pass, e) ==
    IF e.ret = "raise"
    THEN PsetStep(TRUE, e.exc, TRUE, FALSE, NoReason, {<<"name", Str(PsetProps(pset)[1].name)>>})
    ELSE PsetCheck(self, pset, is_pass, ResolvedProps(self, pset),
                   {<<"name", Str(PsetProps(pset)[i].name)>> : i \in 1..Len(PsetProps(pset))})

PropertyPset(self, pset, is_pass) ==
    IF ~IsStr(self.attrs["name"])
    THEN PsetByNames(self, pset, is_pass, ParamEq(self.attrs["name"], Str("id")))
    ELSE IF /\ PyEq(Lookup(PsetProps(pset), self.attrs["name"].v.s), Str("UNKNOWN"))
            /\ ~pset.props[CHOOSE i \in 1..Len(pset.props) :
                              pset.props[i].Name = self.attrs["name"].v.s].single
    THEN \* NominalValue of a property that is no IfcPropertySingleValue
         PsetStep(TRUE, "AttributeError", TRUE, FALSE, NoReason, {})
    ELSE PsetCheck(self, pset, is_pass, ResolvedProps(self, pset), {})

\* the loop over the selected property sets, from index i on; st is the
\* pass over property set i
RECURSIVE PropertyLoop(_, _, _, _, _, _)
RECURSIVE PropertyNext(_, _, _, _, _, _, _)
PropertyNext(self, psets, i, is_pass, reason, cmps, st) ==
    IF st.raise THEN Raised(st.exc, {"get_psets"}, cmps \cup st.cmps)
    ELSE IF st.stop
    THEN Finish(self, is_pass /\ ~st.fail, IF st.fail THEN st.reason ELSE reason,
                {"get_psets"}, cmps \cup st.cmps)
    ELSE PropertyLoop(self, psets, i + 1, is_pass /\ ~st.fail,
                      IF st.fail THEN st.reason ELSE reason, cmps \cup st.cmps)

PropertyLoop(self, psets, i, is_pass, reason, cmps) ==
    IF i > Len(psets) THEN Finish(self, is_pass, reason, {"get_psets"}, cmps)
    ELSE PropertyNext(self, psets, i, is_pass, reason, cmps,
                      PropertyPset(self, psets[i], is_pass))

Property_call(self, inst) ==
    IF IsOptional(self) THEN Result(TRUE, NoReason, {}, {})
    ELSE
    LET propertySet == self.attrs["propertySet"]
        scmps == IF IsStr(propertySet) THEN {}
                 ELSE {<<"propertySet", Str(inst.psets[i].name)>> : i \in 1..Len(inst.psets)}
        psets == IF IsStr(propertySet)
                 THEN SelectSeq(inst.psets, LAMBDA ps : ps.name = propertySet.v.s)
                 ELSE SelectSeq(inst.psets, LAMBDA ps : ParamEq(propertySet, Str(ps.name)).val)
    IN
    IF /\ ~IsStr(propertySet) /\ Len(inst.psets) > 0
       /\ ParamEq(propertySet, Str(inst.psets[1].name)).ret = "raise"
    THEN Raised(ParamEq(propertySet, Str(inst.psets[1].name)).exc, {"get_psets"},
                {<<"propertySet", Str(inst.psets[1].name)>>})
    ELSE IF Len(psets) = 0 THEN Finish(self, FALSE, Reason("NOPSET"), {"get_psets"}, scmps)
    ELSE PropertyLoop(self, psets, 1, TRUE, NoReason, scmps)

(***************************************************************************)
(* Facet.asdict, Facet.to_ids_value and Facet.parse.  A fragment is a dict *)
(* (sequence of <<key, node>>); a node is a raw value, {"simpleValue": v}, *)
(* {"restriction": [rd]} or {"xs:restriction": [rd]} with rd a restriction *)
(* fragment.                                                               *)
(***************************************************************************)
RawNode(v) == [k |-> "raw", v |-> v, rd |-> <<>>]
SimpleNode(v) == [k |-> "simpleValue", v |-> v, rd |-> <<>>]
RestrictionNode(rd) == [k |-> "restriction", v |-> None, rd |-> rd]
XsRestrictionNode(rd) == [k |-> "xs:restriction", v |-> None, rd |-> rd]

\* d[key] = node
DictSet(d, key, node) ==
    IF HasKey(d, key)
    THEN [i \in 1..Len(d) |-> IF d[i][1] = key THEN <<key, node>> ELSE d[i]]
    ELSE Append(d, <<key, node>>)

\* the loop of to_ids_value over a list of Restrictions, from index i; x is
\* rs[i].asdict()
RECURSIVE MergeRestrictions(_, _, _)
RECURSIVE MergeNext(_, _, _, _)
MergeNext(rs, i, restrictions, x) ==
    IF x.ret = "raise" THEN x
    ELSE IF Len(x.val) < 2 THEN Raise("IndexError")
    ELSE MergeRestrictions(rs, i + 1, DictSet(restrictions, x.val[2][1], x.val[2][2]))

MergeRestrictions(rs, i, restrictions) ==
    IF i > Len(rs) THEN Return(restrictions)
    ELSE MergeNext(rs, i, restrictions, Restriction_asdict(rs[i]))

\* {"xs:restriction": [x]} for the fragment that x returned
Wrapped(x) == IF x.ret = "raise" THEN x ELSE Return(XsRestrictionNode(x.val))

\* Facet.to_ids_value(parameter)
to_ids_value(parameter) ==
    IF IsStr(parameter) THEN Return(SimpleNode(parameter.v))
    ELSE IF parameter.k = "restr" THEN Wrapped(Restriction_asdict(parameter.rs[1]))
    ELSE IF parameter.k = "list"
    THEN IF Len(parameter.rs) = 0 THEN Raise("IndexError")
         ELSE IF ~parameter.rs[1].init THEN Raise("AttributeError")
         ELSE Wrapped(MergeRestrictions(parameter.rs, 1,
                          <<<<"@base", Scalar(Str("xs:" \o parameter.rs[1].base))>>>>))
    ELSE Raise("Exception")

\* Facet.asdict(self), from parameter i on; x is to_ids_value of parameter i
RECURSIVE AsdictFrom(_, _, _)
RECURSIVE AsdictNext(_, _, _, _)
AsdictNext(self, i, results, x) ==
    IF x.ret = "raise" THEN x
    ELSE AsdictFrom(self, i + 1, Append(results, <<Parameters(self.variant)[i], x.val>>))

AsdictFrom(self, i, results) ==
    IF i > Len(Parameters(self.variant)) THEN Return(results)
    ELSE
    LET name == Parameters(self.variant)[i]
        value == self.attrs[StripAt(name)]
    IN
    IF value.k = "unset" THEN Raise("AttributeError")
    ELSE IF value.k = "val" /\ value.v.t = "NoneType" THEN AsdictFrom(self, i + 1, results)
    ELSE IF HasAt(name) THEN AsdictFrom(self, i + 1, Append(results, <<name, RawNode(value.v)>>))
    ELSE AsdictNext(self, i, results, to_ids_value(value))

Facet_asdict(self) == AsdictFrom(self, 1, <<>>)

\* the facet each variant's constructor makes from its default arguments
DefaultFacet(variant) ==
    CASE variant = "Entity" -> Facet_init(variant, <<Val(Str("IFCWALL")), Val(None), Val(None)>>)
      [] variant = "Attribute" ->
            Facet_init(variant, <<Val(Str("Name")), Val(None), Val(None), Val(None), Val(None)>>)
      [] variant = "Classification" ->
            Facet_init(variant, <<Val(None), Val(None), Val(None), Val(None), Val(None), Val(None)>>)
      [] variant = "PartOf" ->
            Facet_init(variant, <<Val(None), Val(Str("IfcRelAggregates")), Val(None), Val(None),
                                  Val(None)>>)
      [] variant = "Property" ->
            Facet_init(variant, <<Val(Str("Property_Set")), Val(Str("PropertyName")), Val(None),
                                  Val(None), Val(None), Val(None), Val(None), Val(None)>>)
      [] OTHER ->
            Facet_init(variant, <<Val(None), Val(None), Val(None), Val(None), Val(None)>>)

FOk(obj) == [ret |-> "return", exc |-> "", obj |-> obj]
FRaise(e, obj) == [ret |-> "raise", exc |-> e, obj |-> obj]

\* Facet.parse(self, xml), from item i on
RECURSIVE ParseFrom(_, _, _)
ParseFrom(self, xml, i) ==
    IF i > Len(xml) THEN FOk(self)
    ELSE
    LET name == StripAt(xml[i][1])
        value == xml[i][2]
    IN
    IF value.k = "simpleValue"
    THEN ParseFrom([self EXCEPT !.attrs[name] = Val(value.v)], xml, i + 1)
    ELSE IF value.k = "restriction"
    THEN LET r == Restriction_parse(DefaultRestriction, value.rd) IN
         IF r.ret = "raise" THEN FRaise(r.exc, self)
         ELSE ParseFrom([self EXCEPT !.attrs[name] = Restr(r.obj)], xml, i + 1)
    ELSE IF value.k = "xs:restriction"
    THEN ParseFrom([self EXCEPT !.attrs[name] = RawDict(value.rd)], xml, i + 1)
    ELSE ParseFrom([self EXCEPT !.attrs[name] = Val(value.v)], xml, i + 1)

Facet_parse(self, xml) == ParseFrom(self, xml, 1)

(***************************************************************************)
(* Calling a facet: the variant's __call__, and the facet afterwards (a    *)
(* Restriction parameter is whatever its __eq__ left of it).               *)
(***************************************************************************)
\* facet(inst): the __call__ of the facet's class
Facet_call(self, inst) ==
    CASE self.variant = "Entity" -> Entity_call(self, inst)
      [] self.variant = "Attribute" -> Attribute_call(self, inst)
      [] self.variant = "Classification" -> Classification_call(self, inst)
      [] self.variant = "PartOf" -> PartOf_call(self, inst)
      [] self.variant = "Property" -> Property_call(self, inst)
      [] OTHER -> Material_call(self, inst)

\* the facet after a call that made the comparisons cmps: a comparison with a
\* Restriction parameter may have rewritten its options (Restriction.__eq__)
FacetAfter(self, cmps) ==
    [self EXCEPT !.attrs = [a \in AttrNames |->
        LET slot == self.attrs[a]
            changed == {SlotAfterEq(slot, c[2]) : c \in {x \in cmps : x[1] = a}} \ {slot}
        IN IF changed = {} THEN slot ELSE CHOOSE x \in changed : TRUE]]

(***************************************************************************)
(* Facet.to_string(clause_type).  A text is a sequence of pieces: a piece  *)
(* is a stretch of plain text or one placeholder "{key}", so that          *)
(* str.replace and the count of "{" work on pieces.                        *)
(***************************************************************************)
\* "{" + key + "}"
KeyVariable(key) == "{" \o key \o "}"
KeyVariables == {KeyVariable(a) : a \in AttrNames}

\* self.applicability_templates and self.requirement_templates
Templates(variant, clause_type) ==
    CASE variant = "Entity" /\ clause_type = "applicability" ->
            << <<"All ", "{name}", " data of type ", "{predefinedType}">>,
               <<"All ", "{name}", " data">> >>
      [] variant = "Entity" ->
            << <<"Shall be ", "{name}", " data of type ", "{predefinedType}">>,
               <<"Shall be ", "{name}", " data">> >>
      [] variant = "Attribute" /\ clause_type = "applicability" ->
            << <<"Data where the ", "{name}", " is ", "{value}">>,
               <<"Data where the ", "{name}", " is provided">> >>
      [] variant = "Attribute" ->
            << <<"The ", "{name}", " shall be ", "{value}">>,
               <<"The ", "{name}", " shall be provided">> >>
      [] variant = "Classification" /\ clause_type = "applicability" ->
            << <<"Data having a ", "{system}", " reference of ", "{value}">>,
               <<"Data classified using ", "{system}">>,
               <<"Data classified as ", "{value}">> >>
      [] variant = "Classification" ->
            << <<"Shall have a ", "{system}", " reference of ", "{value}">>,
               <<"Shall be classified using ", "{system}">>,
               <<"Shall be classified as ", "{value}">> >>
      [] variant = "PartOf" /\ clause_type = "applicability" ->
            << <<"An element with an ", "{relation}", " relationship with an ", "{entity}">>,
               <<"An element with an ", "{relation}", " relationship">> >>
      [] variant = "PartOf" ->
            << <<"An element must have an ", "{relation}", " relationship with an ", "{entity}">>,
               <<"An element must have an ", "{relation}", " relationship">> >>
      [] variant = "Property" /\ clause_type = "applicability" ->
            << <<"Elements with ", "{name}", " data of ", "{value}", " in the dataset ",
                 "{propertySet}">>,
               <<"Elements with ", "{name}", " data in the dataset ", "{propertySet}">> >>
      [] variant = "Property" ->
            << <<"{name}", " data shall be ", "{value}", " and in the dataset ", "{propertySet}">>,
               <<"{name}", " data shall be provided in the dataset ", "{propertySet}">> >>
      [] variant = "Material" /\ clause_type = "applicability" ->
            << <<"All data with a ", "{value}", " material">>,
               <<"All data with a material">> >>
      [] OTHER ->
            << <<"Shall shall have a material of ", "{value}">>,
               <<"Shall have a material">> >>

\* sep.join(l)
RECURSIVE Join(_, _)
Join(sep, l) ==
    IF Len(l) = 0 THEN ""
    ELSE IF Len(l) = 1 THEN l[1]
    ELSE l[1] \o sep \o Join(sep, Tail(l))

\* the wording of each bound in Restriction.__str__
BoundWords(sign) ==
    CASE sign = "minInclusive" -> "larger or equal "
      [] sign = "maxInclusive" -> "smaller or equal "
      [] sign = "minExclusive" -> "larger than "
      [] OTHER -> "smaller than "

\* Restriction.__str__(self); a type that is none of the four gives None,
\* which str() refuses
Restriction_str(self) ==
    IF ~self.init THEN Raise("AttributeError")
    ELSE CASE self.type = "enumeration" ->
                Return("one of '" \o Join("' or '", self.options.l) \o "'")
           [] self.type = "bounds" ->
                Return("of value " \o
                       Join(", and ", [j \in 1..Len(self.options.d) |->
                                          BoundWords(self.options.d[j][1])
                                          \o PyStr(self.options.d[j][2])]))
           [] self.type = "length" ->
                Return(Join(" and ", self.options.l) \o " letters long")
           [] self.type = "pattern" ->
                Return("the pattern '" \o self.options.s \o "'")
           [] OTHER -> Raise("TypeError")

\* str(value) of a parameter, as pieces: the text of a str that spells a
\* placeholder is that placeholder.  A list shows the repr of its members
\* and a dict its items, neither of which spells one.
SlotStr(slot) ==
    CASE slot.k = "val" -> Return(<<PyStr(slot.v)>>)
      [] slot.k = "restr" ->
            IF Restriction_str(slot.rs[1]).ret = "raise" THEN Restriction_str(slot.rs[1])
            ELSE Return(<<Restriction_str(slot.rs[1]).val>>)
      [] slot.k = "list" -> Return(<<"[<facet.Restriction object>]">>)
      [] slot.k = "dict" -> Return(<<"{'xs:restriction': [...]}">>)
      [] OTHER -> Raise("AttributeError")

\* getattr(self, key) is not None
NotNone(slot) == ~(slot.k = "val" /\ slot.v.t = "NoneType")

\* template.replace(key_variable, text)
RECURSIVE Replace(_, _, _)
Replace(template, key_variable, text) ==
    IF Len(template) = 0 THEN <<>>
    ELSE (IF Head(template) = key_variable THEN text ELSE <<Head(template)>>)
         \o Replace(Tail(template), key_variable, text)

\* len(template) - len(template.replace("{", ""))
TotalVariables(template) == Cardinality({i \in 1..Len(template) : template[i] \in KeyVariables})

Text(val) == [ret |-> "return", exc |-> "", none |-> FALSE, val |-> val]
NoText == [ret |-> "return", exc |-> "", none |-> TRUE, val |-> <<>>]
TextRaise(e) == [ret |-> "raise", exc |-> e, none |-> FALSE, val |-> <<>>]

\* the loop over self.parameters for one template, from key i on, with the
\* replacements made so far: the template returned, or none (go on with the
\* next template), or the exception raised
RECURSIVE KeysFrom(_, _, _, _, _)
KeysFrom(self, template, total_variables, i, total_replacements) ==
    IF i > Len(Parameters(self.variant)) THEN NoText
    ELSE LET key == StripAt(Parameters(self.variant)[i])
             value == self.attrs[key]
             hit == NotNone(value) /\ \E j \in 1..Len(template) : template[j] = KeyVariable(key)
         IN IF value.k = "unset" THEN TextRaise("AttributeError")
            ELSE IF hit /\ SlotStr(value).ret = "raise" THEN TextRaise(SlotStr(value).exc)
            ELSE LET replaced == IF hit THEN Replace(template, KeyVariable(key), SlotStr(value).val)
                                 ELSE template
                     n == IF hit THEN total_replacements + 1 ELSE total_replacements
                 IN IF n = total_variables THEN Text(replaced)
                    ELSE KeysFrom(self, replaced, total_variables, i + 1, n)

\* the loop over the templates, from template i on
RECURSIVE TemplatesFrom(_, _, _)
RECURSIVE TemplatesNext(_, _, _, _)
TemplatesNext(self, templates, i, t) ==
    IF t.ret = "raise" \/ ~t.none THEN t ELSE TemplatesFrom(self, templates, i + 1)

TemplatesFrom(self, templates, i) ==
    IF i > Len(templates) THEN NoText
    ELSE TemplatesNext(self, templates, i,
                       KeysFrom(self, templates[i], TotalVariables(templates[i]), 1, 0))

ClauseTypes == {"applicability", "requirement"}

\* Facet.to_string(self, clause_type): templates stays unbound for a clause
\* type that is neither of the two
Facet_to_string(self, clause_type) ==
    IF clause_type \notin ClauseTypes THEN TextRaise("UnboundLocalError")
    ELSE TemplatesFrom(self, Templates(self.variant, clause_type), 1)

(***************************************************************************)
(* filter(ifc_file, elements).  The outcome is the list returned (none:    *)
(* the method returned None), or the exception of a call that raised, and  *)
(* the facet as the calls left it.                                         *)
(***************************************************************************)
Filtered(val, obj) == [ret |-> "return", exc |-> "", none |-> FALSE, val |-> val, obj |-> obj]
FilteredNone(obj) == [ret |-> "return", exc |-> "", none |-> TRUE, val |-> <<>>, obj |-> obj]
FilterRaise(e, obj) == [ret |-> "raise", exc |-> e, none |-> FALSE, val |-> <<>>, obj |-> obj]

\* [e for e in elements if self(e)], from element i on; r is self(elements[i])
RECURSIVE FilterFrom(_, _, _, _)
RECURSIVE FilterNext(_, _, _, _, _)
FilterNext(self, elements, i, kept, r) ==
    IF r.ret = "raise" THEN FilterRaise(r.exc, FacetAfter(self, r.cmps))
    ELSE FilterFrom(FacetAfter(self, r.cmps), elements, i + 1,
                    IF r.is_pass THEN Append(kept, elements[i]) ELSE kept)

FilterFrom(self, elements, i, kept) ==
    IF i > Len(elements) THEN Filtered(kept, self)
    ELSE FilterNext(self, elements, i, kept, Facet_call(self, elements[i]))

\* Facet.filter(self, ifc_file, elements)
Facet_filter(self, ifc_file, elements) == FilterFrom(self, elements, 1, <<>>)

\* ifc_file.by_type(name, include_subtypes=False): the elements of the file
\* of that class, whatever the case of the name
by_type(ifc_file, name) == SelectSeq(ifc_file, LAMBDA e : Upper(e.is_a) = Upper(name))

\* ifc_file.wrapped_data.types(): the classes of the file, each once (taken
\* in the order of their first element)
RECURSIVE types(_)
types(ifc_file) ==
    IF Len(ifc_file) = 0 THEN <<>>
    ELSE LET rest == types(SubSeq(ifc_file, 1, Len(ifc_file) - 1))
             t == ifc_file[Len(ifc_file)].is_a
         IN IF \E i \in 1..Len(rest) : rest[i] = t THEN rest ELSE Append(rest, t)

\* [t for t in types() if t.upper() == self.name] and the elements of these
\* classes, from class i on; e is the comparison of class i with name
RECURSIVE ClassesFrom(_, _, _, _, _)
RECURSIVE ClassesNext(_, _, _, _, _, _)
ClassesNext(self, ifc_file, ts, i, results, e) ==
    IF e.ret = "raise" THEN FilterRaise(e.exc, self)
    ELSE ClassesFrom([self EXCEPT !.attrs["name"] = SlotAfterEq(@, Str(Upper(ts[i])))],
                     ifc_file, ts, i + 1,
                     IF e.val THEN results \o by_type(ifc_file, ts[i]) ELSE results)

ClassesFrom(self, ifc_file, ts, i, results) ==
    IF i > Len(ts) THEN Filtered(results, self)
    ELSE ClassesNext(self, ifc_file, ts, i, results,
                     ParamEq(self.attrs["name"], Str(Upper(ts[i]))))

\* the rest of Entity.filter once results is known
EntityKept(self, results) ==
    IF results.ret = "raise" THEN results
    ELSE IF SlotTruthy(results.obj.attrs["predefinedType"])
    THEN FilterFrom(results.obj, results.val, 1, <<>>)
    ELSE results

\* Entity.filter(self, ifc_file, elements)
Entity_filter(self, ifc_file, elements) ==
    IF IsStr(self.attrs["name"])
    THEN EntityKept(self, Filtered(by_type(ifc_file, self.attrs["name"].v.s), self))
    ELSE EntityKept(self, ClassesFrom(self, ifc_file, types(ifc_file), 1, <<>>))

\* Classification.filter(self, ifc_file, elements): pass
Classification_filter(self, ifc_file, elements) == FilteredNone(self)

\* facet.filter(ifc_file, elements): the method of the facet's class
filter(self, ifc_file, elements) ==
    CASE self.variant = "Entity" -> Entity_filter(self, ifc_file, elements)
      [] self.variant = "Classification" -> Classification_filter(self, ifc_file, elements)
      [] OTHER -> Facet_filter(self, ifc_file, elements)

(***************************************************************************)
(* Result.to_string of the six Result classes.  A sentence is the text of  *)
(* the f-string with {} where str(...) of a value was put, and the values  *)
(* shown there; a method that falls off its last elif returns None.        *)
(***************************************************************************)
Sentence(text, shown) == [ret |-> "return", exc |-> "", some |-> TRUE, text |-> text, shown |-> shown]
NoSentence == [ret |-> "return", exc |-> "", some |-> FALSE, text |-> "", shown |-> <<>>]
SentenceRaise(e) == [ret |-> "raise", exc |-> e, some |-> FALSE, text |-> "", shown |-> <<>>]

\* len(s) of the strings a property of the model has as its value
StrLens ==
    { <<"", 0>>, <<"A", 1>>, <<"Foo", 3>>, <<"Bar", 3>>, <<"UNKNOWN", 7>> }

\* len(self.reason["actual"]) == 1, or the TypeError of a value without len()
LenIsOne(reason) ==
    IF reason.shape = "none" THEN Raise("KeyError")
    ELSE IF reason.shape = "list" THEN Return(Len(reason.actual) = 1)
    ELSE IF reason.actual[1].t = "str"
    THEN Return((CHOOSE p \in StrLens : p[1] = reason.actual[1].s)[2] = 1)
    ELSE Raise("TypeError")

EntityResult_to_string(reason) ==
    IF reason.type = "NAME"
    THEN Sentence("The entity class \"{}\" does not meet the required IFC class", reason.actual)
    ELSE IF reason.type = "PREDEFINEDTYPE"
    THEN Sentence("The predefined type \"{}\" does not meet the required type", reason.actual)
    ELSE NoSentence

AttributeResult_to_string(reason) ==
    IF reason.type = "NOVALUE" THEN Sentence("The required attribute did not exist", <<>>)
    ELSE IF reason.type = "FALSEY"
    THEN Sentence("The attribute value \"{}\" is empty", reason.actual)
    ELSE IF reason.type = "INVALID"
    THEN Sentence("An invalid attribute name was specified in the IDS", <<>>)
    ELSE IF reason.type = "VALUE"
    THEN Sentence("The attribute value \"{}\" does not match the requirement", reason.actual)
    ELSE NoSentence

ClassificationResult_to_string(reason) ==
    IF reason.type = "NOVALUE" THEN Sentence("The entity has no classification", <<>>)
    ELSE IF reason.type = "VALUE"
    THEN Sentence("The references \"{}\" do not match the requirements", reason.actual)
    ELSE IF reason.type = "system"
    THEN Sentence("The systems \"{}\" do not match the requirements", reason.actual)
    ELSE NoSentence

PartOfResult_to_string(reason) == Sentence("TODO", <<>>)

PropertyResult_to_string(reason) ==
    IF reason.type = "NOPSET" THEN Sentence("The entity has no property sets", <<>>)
    ELSE IF reason.type = "NOVALUE"
    THEN Sentence("The property set does not contain the required property", <<>>)
    ELSE IF reason.type = "MEASURE"
    THEN Sentence("The data type \"{}\" does not match the requirements", reason.actual)
    ELSE IF reason.type = "VALUE"
    THEN IF LenIsOne(reason).ret = "raise" THEN SentenceRaise(LenIsOne(reason).exc)
         ELSE IF LenIsOne(reason).val
         THEN Sentence("The property value \"{}\" does not match the requirements",
                       <<reason.actual[1]>>)
         ELSE Sentence("The property values \"{}\" do not match the requirements", reason.actual)
    ELSE NoSentence

MaterialResult_to_string(reason) ==
    IF reason.type = "NOVALUE" THEN Sentence("The entity has no material", <<>>)
    ELSE IF reason.type = "VALUE"
    THEN Sentence("The material names and categories of \"{}\" does not match the requirement",
                  reason.actual)
    ELSE NoSentence

\* result.to_string() of the Result a facet of that variant returned; a
\* Result without reason raises at self.reason["type"]
Result_to_string(variant, reason) ==
    IF variant = "PartOf" THEN PartOfResult_to_string(reason)
    ELSE IF ~reason.present THEN SentenceRaise("TypeError")
    ELSE CASE variant = "Entity" -> EntityResult_to_string(reason)
           [] variant = "Attribute" -> AttributeResult_to_string(reason)
           [] variant = "Classification" -> ClassificationResult_to_string(reason)
           [] variant = "Property" -> PropertyResult_to_string(reason)
           [] OTHER -> MaterialResult_to_string(reason)

(***************************************************************************)
(* The inputs the model draws from.                                        *)
(***************************************************************************)
NoInput == <<>>
NoOutcome == [ret |-> "none", exc |-> ""]

\* Restriction constructor arguments: options, type, base
RestrictionArgs ==
    ({OptList(<<"Foo", "Bar">>), OptList(<<"TRUE">>), OptList(<<"TRUE", "FALSE">>),
      OptDict(<<<<"minInclusive", Float(0)>>, <<"maxExclusive", Float(1000000)>>>>),
      OptStr("Fo+"), OptStr("[A-Z]{2}-[0-9]{3}")}
     \X {"enumeration", "bounds", "length", "pattern", "choice"})
    \X {"string", "bool", "boolean", "double"}

\* the Restriction objects the facets of the model hold as parameters
EnumFooBar == Restriction_init(OptList(<<"Foo", "Bar">>), "enumeration", "string").obj
EnumBool == Restriction_init(OptList(<<"TRUE">>), "enumeration", "bool").obj
PatternFoo == Restriction_init(OptStr("Fo+"), "pattern", "string").obj
BoundsMillion ==
    Restriction_init(OptDict(<<<<"minInclusive", Float(0)>>, <<"maxInclusive", Float(1000000)>>>>),
                     "bounds", "double").obj
LengthNoAttrs == Restriction_init(OptList(<<">=3">>), "length", "string").obj
EnumNames == Restriction_init(OptList(<<"Name", "Description">>), "enumeration", "string").obj
PatternIfc == Restriction_init(OptStr("IFC(WALL|SLAB)"), "pattern", "string").obj
PatternA1 == Restriction_init(OptStr("A1.*"), "pattern", "string").obj
PatternPset == Restriction_init(OptStr("Pset_.*"), "pattern", "string").obj
PatternFire == Restriction_init(OptStr("Fire.*"), "pattern", "string").obj

\* minOccurs, maxOccurs
Cardinalities ==
    {<<Val(None), Val(None)>>, <<Val(IntV(0)), Val(None)>>, <<Val(IntV(0)), Val(IntV(1))>>,
     <<Val(IntV(0)), Val(IntV(0))>>, <<Val(None), Val(IntV(0))>>, <<Val(IntV(1)), Val(IntV(1))>>}

ExpectedValues ==
    {Val(None), Val(Str("Foo")), Val(Str("1000000")), Val(Str("-1000000")), Val(Str("0")),
     Val(Str("TRUE")), Val(Str("yes")),
     Restr(EnumFooBar), Restr(EnumBool), Restr(PatternFoo), Restr(BoundsMillion),
     Restr(LengthNoAttrs), RList(<<EnumFooBar, PatternFoo>>)}

EntityFacets ==
    {Facet_init("Entity", <<n, p, i>>) :
        n \in {Val(Str("IFCWALL")), Restr(PatternIfc)},
        p \in {Val(None), Val(Str("SOLIDWALL")), Restr(EnumFooBar)},
        i \in {Val(None), Val(Str("note"))}}

AttributeFacets ==
    {Facet_init("Attribute", <<n, v, c[1], c[2], Val(None)>>) :
        n \in {Val(Str("Name")), Restr(EnumNames)},
        v \in ExpectedValues, c \in Cardinalities}

ClassificationFacets ==
    {Facet_init("Classification", <<v, sy, Val(None), c[1], c[2], Val(None)>>) :
        v \in {Val(None), Val(Str("A1")), Restr(PatternA1), Restr(BoundsMillion)},
        sy \in {Val(None), Val(Str("Uniclass")), Restr(EnumBool)},
        c \in Cardinalities}

PartOfFacets ==
    {Facet_init("PartOf", <<e, Val(Str(r)), c[1], c[2], Val(None)>>) :
        e \in {Val(None), Val(Str("IFCBUILDING")), Restr(PatternIfc)},
        r \in {"IfcRelAggregates", "IfcRelAssignsToGroup", "IfcRelContainedInSpatialStructure",
               "IfcRelNests", "IfcRelVoidsElement"},
        c \in Cardinalities}

PropertyFacets ==
    {Facet_init("Property", <<ps, n, v, m, Val(None), c[1], c[2], Val(None)>>) :
        ps \in {Val(Str("Pset_WallCommon")), Restr(PatternPset)},
        n \in {Val(Str("FireRating")), Restr(PatternFire)},
        v \in {Val(None), Val(Str("Foo")), Val(Str("1000000")), Val(Str("-1000000")),
               Restr(EnumBool)},
        m \in {Val(None), Val(Str("IfcLabel")), Val(Str("IfcLengthMeasure"))},
        c \in Cardinalities}

MaterialFacets ==
    {Facet_init("Material", <<v, Val(None), c[1], c[2], Val(None)>>) :
        v \in {Val(None), Val(Str("Foo")), Restr(EnumFooBar), Restr(EnumBool),
               Restr(LengthNoAttrs), RList(<<EnumFooBar>>)},
        c \in Cardinalities}

Facets ==
    EntityFacets \cup AttributeFacets \cup ClassificationFacets \cup PartOfFacets
    \cup PropertyFacets \cup MaterialFacets

EntityElements ==
    {[BaseElement EXCEPT !.is_a = t, !.predefined_type = p] :
        t \in {"IfcWall", "IfcSlab", "IfcBuilding"},
        p \in {None, Str("SOLIDWALL"), Str("Foo")}}

CandidateValues ==
    {None, Str(""), Str("Foo"), Str("Bar"), Str("UNKNOWN"), Str("yes"), EmptyTuple,
     Float(1000000), Float(1000002), Float(999999), Float(-1000000),
     Float(0), IntV(42), IntV(0), Bool(TRUE), Bool(FALSE), EntityInstance("#7")}

AttributeElements ==
    {[BaseElement EXCEPT !.info = <<AttrRec("Name", v, "STRING")>>] : v \in CandidateValues}
    \cup {[BaseElement EXCEPT !.info = <<AttrRec("Name", Str("UNKNOWN"), "LOGICAL")>>],
          [BaseElement EXCEPT !.info = <<AttrRec("Name", Str("Foo"), "inverse")>>],
          [BaseElement EXCEPT !.info = <<AttrRec("Name", Str("Foo"), "derived")>>],
          [BaseElement EXCEPT !.info = <<AttrRec("Name", Str("Foo"), "STRING"),
                                          AttrRec("Description", Str("Bar"), "STRING")>>],
          [BaseElement EXCEPT !.info = <<AttrRec("Tag", Str("Foo"), "STRING")>>],
          [BaseElement EXCEPT !.info = <<AttrRec("Name", Str("Foo"), "STRING"),
                                          AttrRec("Description", Str(""), "STRING")>>],
          [BaseElement EXCEPT !.info = <<AttrRec("Name", EmptyTuple, "STRING"),
                                          AttrRec("Description", None, "STRING")>>],
          [BaseElement EXCEPT !.info = <<AttrRec("Name", None, "STRING")>>,
                              !.has_type = TRUE,
                              !.type_info = <<AttrRec("Name", Str("Foo"), "STRING")>>],
          [BaseElement EXCEPT !.info = <<AttrRec("Name", Str("Bar"), "STRING")>>,
                              !.has_type = TRUE,
                              !.type_info = <<AttrRec("Name", Str("Foo"), "STRING")>>]}

Ref(id, system) == [id |-> id, system |-> system]

ClassificationElements ==
    {[BaseElement EXCEPT !.references = r[1], !.inherited = r[2]] :
        r \in {<<<<>>, <<>>>>,
               <<<<Ref(Str("A1"), Str("Uniclass"))>>, <<>>>>,
               <<<<Ref(Str("B2"), Str("Omni"))>>, <<>>>>,
               <<<<Ref(None, Str("Uniclass"))>>, <<>>>>,
               <<<<Ref(Str("A1-1"), Str("Uniclass"))>>, <<Ref(Str("A1"), Str("Uniclass"))>>>>,
               <<<<Ref(Str("TRUE"), Str("True"))>>, <<>>>>}}

ChainTypes == {"IfcBuilding", "IfcSlab"}

\* the chains of at most n ancestors
RECURSIVE Chains(_)
Chains(n) ==
    IF n = 0 THEN {<<>>}
    ELSE Chains(n - 1) \cup {Append(c, t) : c \in {x \in Chains(n - 1) : Len(x) = n - 1},
                                           t \in ChainTypes}

Assignment(is_a, group) == [is_a |-> is_a, group |-> group]

PartOfElements ==
    {[BaseElement EXCEPT !.aggregates = c, !.nests = c] : c \in Chains(MaxChain)}
    \cup {[BaseElement EXCEPT !.assignments = a] :
            a \in {<<Assignment("IfcRelAssignsToGroup", "IfcGroup")>>,
                   <<Assignment("IfcRelAssignsToActor", "IfcActor"),
                     Assignment("IfcRelAssignsToGroup", "IfcBuilding")>>,
                   <<Assignment("IfcRelAssignsToActor", "IfcActor")>>}}
    \cup {[BaseElement EXCEPT !.container = c] : c \in {"IfcBuilding", "IfcSlab"}}

SingleValues ==
    {<<"IfcLabel", Str("Foo")>>, <<"IfcLabel", Str("Bar")>>, <<"IfcLabel", Str("")>>,
     <<"IfcLabel", Str("A")>>,
     <<"IfcLabel", Str("UNKNOWN")>>, <<"IfcLogical", Str("UNKNOWN")>>,
     <<"", None>>, <<"IfcLengthMeasure", Float(1000000)>>,
     <<"IfcLengthMeasure", Float(1000002)>>, <<"IfcLengthMeasure", Float(-1000000)>>,
     <<"IfcReal", Float(-1000000)>>,
     <<"IfcInteger", IntV(42)>>, <<"IfcBoolean", Bool(TRUE)>>}

PropertyElements ==
    {[BaseElement EXCEPT !.psets =
        <<Pset("Pset_WallCommon", 10, <<Prop("FireRating", TRUE, v[1], v[2], 0)>>)>>] :
        v \in SingleValues}
    \cup {[BaseElement EXCEPT !.psets = ps] :
            ps \in {<<>>,
                    <<Pset("Pset_WallCommon", 10, <<Prop("Reference", TRUE, "IfcLabel", Str("Foo"), 0)>>)>>,
                    <<Pset("Pset_WallCommon", 10,
                           <<Prop("FireRating", TRUE, "IfcLengthMeasure", Float(1000), 1000)>>)>>,
                    <<Pset("Pset_WallCommon", 10, <<Prop("FireRating", FALSE, "", Str("Foo"), 0)>>)>>,
                    <<Pset("Pset_WallCommon", 10, <<Prop("FireRating", FALSE, "", Str("UNKNOWN"), 0)>>)>>,
                    <<Pset("Pset_WallCommon", 10, <<Prop("FireRating", TRUE, "IfcLabel", Str("Bar"), 0)>>),
                      Pset("Pset_Other", 11, <<Prop("FireRating", TRUE, "IfcLabel", Str("Foo"), 0)>>)>>,
                    <<Pset("Pset_WallCommon", 10, <<Prop("FireRating", TRUE, "IfcLabel", Str("Bar"), 0)>>),
                      Pset("Pset_Other", 11, <<Prop("Reference", TRUE, "IfcLabel", Str("Foo"), 0)>>)>>,
                    <<Pset("Pset_Other", 11, <<Prop("Reference", TRUE, "IfcLabel", Str("Foo"), 0)>>),
                      Pset("Pset_WallCommon", 10, <<Prop("FireRating", TRUE, "IfcLabel", Str("Bar"), 0)>>)>>,
                    <<Pset("Pset_Other", 11, <<Prop("FireRating", FALSE, "", Str("Bar"), 0)>>),
                      Pset("Pset_WallCommon", 10, <<Prop("FireRating", TRUE, "IfcLabel", Str("Foo"), 0)>>)>>,
                    <<Pset("Pset_WallCommon", 10, <<Prop("FireRating", TRUE, "", None, 0),
                                                    Prop("FireStop", TRUE, "", None, 0)>>)>>}}

Material(kind, Name, Category, items) ==
    [kind |-> kind, Name |-> Name, Category |-> Category, items |-> items]

MaterialElements ==
    {[BaseElement EXCEPT !.material = m] :
        m \in {NoMaterial,
               Material("IfcMaterial", Str("Foo"), None, <<>>),
               Material("IfcMaterial", Str("Concrete"), Str("Bar"), <<>>),
               Material("IfcMaterial", Str("True"), None, <<>>),
               Material("IfcMaterialList", None, None,
                        <<Item(None, None, Str("Foo"), None),
                          Item(None, None, Str("Concrete"), Str("Bar"))>>),
               Material("IfcMaterialLayerSet", Str("Wall"), None,
                        <<Item(Str("Core"), Str("Foo"), Str("Concrete"), None)>>),
               Material("IfcMaterialProfileSet", None, None, <<>>),
               Material("IfcMaterialConstituentSet", Str("Window"), None,
                        <<Item(Str("Frame"), None, Str("Foo"), None)>>),
               Material("IfcMaterialLayer", Str("Core"), None, <<>>)}}

MatchCandidates ==
    CandidateValues \cup {Str("TRUE"), Str("True"), Str("true"), Str("AB-123"), Str("AB-1234")}

\* restriction fragments, with the keys Restriction.parse looks for and with
\* the keys Restriction.asdict writes
RestrictionFragments ==
    { <<<<"@base", Scalar(Str("xs:string"))>>,
        <<"enumeration", List(<<Entry(Str("Foo")), Entry(Str("Bar"))>>)>>>>,
      <<<<"@base", Scalar(Str("xs:boolean"))>>,
        <<"enumeration", List(<<Entry(Str("TRUE"))>>)>>>>,
      <<<<"@base", Scalar(Str("xs:boolean"))>>,
        <<"enumeration", List(<<Entry(Str("TRUE")), Entry(Str("FALSE"))>>)>>>>,
      <<<<"@base", Scalar(Str("xs:string"))>>,
        <<"xs:enumeration", List(<<Entry(Str("Foo")), Entry(Str("Bar"))>>)>>>>,
      <<<<"@base", Scalar(Str("xs:double"))>>, <<"minInclusive", Obj(Float(0))>>>>,
      <<<<"@base", Scalar(Str("xs:double"))>>, <<"minInclusive", Obj(Float(0))>>,
        <<"maxExclusive", Obj(Float(1000000))>>>>,
      <<<<"@base", Scalar(Str("xs:double"))>>,
        <<"xs:minInclusive", List(<<FixedEntry(Str("0.0"))>>)>>>>,
      <<<<"@base", Scalar(Str("xs:string"))>>, <<"minLength", Obj(IntV(3))>>>>,
      <<<<"@base", Scalar(Str("xs:string"))>>, <<"length", Obj(IntV(4))>>>>,
      <<<<"@base", Scalar(Str("xs:string"))>>, <<"xs:maxLength", Obj(IntV(5))>>>>,
      <<<<"@base", Scalar(Str("xs:string"))>>, <<"pattern", Obj(Str("Fo+"))>>>>,
      <<<<"@base", Scalar(Str("xs:string"))>>, <<"pattern", Obj(Str("[A-Z]{2}-[0-9]{3}"))>>>>,
      <<<<"@base", Scalar(Str("xs:string"))>>,
        <<"xs:pattern", List(<<Entry(Str("Fo+"))>>)>>>>,
      <<<<"pattern", Obj(Str("Fo+"))>>>> }

\* facet fragments as a rule document gives them: the variant and the dict
XmlFragments ==
    { <<"Entity", <<<<"name", SimpleNode(Str("IFCWALL"))>>>>>>,
      <<"Entity", <<<<"name", SimpleNode(Str("IFCSLAB"))>>,
                    <<"predefinedType", SimpleNode(Str("SOLIDWALL"))>>,
                    <<"@instructions", RawNode(Str("note"))>>>>>>,
      <<"Entity", <<<<"name", SimpleNode(Str("IFCWALL"))>>,
                    <<"@minOccurs", RawNode(IntV(0))>>,
                    <<"@maxOccurs", RawNode(IntV(1))>>>>>>,
      <<"Entity", <<<<"name", SimpleNode(Str("IFCWALL"))>>,
                    <<"@minOccurs", RawNode(IntV(1))>>,
                    <<"@maxOccurs", RawNode(IntV(0))>>>>>>,
      <<"Attribute", <<<<"name", SimpleNode(Str("Name"))>>,
                       <<"value", RestrictionNode(
                            <<<<"@base", Scalar(Str("xs:boolean"))>>,
                              <<"enumeration", List(<<Entry(Str("TRUE"))>>)>>>>)>>>>>>,
      <<"Attribute", <<<<"name", SimpleNode(Str("Name"))>>,
                       <<"value", RestrictionNode(
                            <<<<"@base", Scalar(Str("xs:string"))>>,
                              <<"pattern", Obj(Str("Fo+"))>>>>)>>,
                       <<"@minOccurs", RawNode(IntV(1))>>,
                       <<"@maxOccurs", RawNode(IntV(1))>>>>>>,
      <<"Attribute", <<<<"name", SimpleNode(Str("Name"))>>,
                       <<"value", RestrictionNode(
                            <<<<"@base", Scalar(Str("xs:double"))>>,
                              <<"minInclusive", Obj(Float(0))>>>>)>>>>>>,
      <<"Material", <<<<"value", SimpleNode(Str("Foo"))>>,
                      <<"@minOccurs", RawNode(IntV(0))>>,
                      <<"@maxOccurs", RawNode(IntV(0))>>>>>>,
      <<"PartOf", <<<<"entity", SimpleNode(Str("IFCBUILDING"))>>,
                    <<"@relation", RawNode(Str("IfcRelNests"))>>>>>> }

ElementsFor(variant) ==
    CASE variant = "Entity" -> EntityElements
      [] variant = "Attribute" -> AttributeElements
      [] variant = "Classification" -> ClassificationElements
      [] variant = "PartOf" -> PartOfElements
      [] variant = "Property" -> PropertyElements
      [] OTHER -> MaterialElements

(***************************************************************************)
(* The state machine of a facet.                                           *)
(***************************************************************************)
Init ==
    /\ op = "init"
    /\ facet = NoFacet
    /\ facet0 = NoFacet
    /\ restriction = NoAttrs
    /\ origin = "none"
    /\ inp = NoInput
    /\ out = NoOutcome

\* Variant(*parameters)
Construct ==
    /\ op = "init"
    /\ \E f \in Facets :
        /\ facet' = f
        /\ facet0' = f
    /\ op' = "construct"
    /\ origin' = "construct"
    /\ inp' = NoInput
    /\ out' = NoOutcome
    /\ UNCHANGED restriction

\* facet(inst); inp keeps both arguments, the facet as it was before the call
Call ==
    /\ op \in {"construct", "parse", "call"}
    /\ facet # NoFacet
    /\ origin # "roundtrip"
    /\ \E inst \in ElementsFor(facet.variant) :
        \E result \in {Facet_call(facet, inst)} :
        /\ inp' = [self |-> facet, inst |-> inst]
        /\ out' = result
        /\ facet' = FacetAfter(facet, result.cmps)
    /\ op' = "call"
    /\ UNCHANGED <<facet0, restriction, origin>>

\* facet.asdict()
Asdict ==
    /\ op \in {"construct", "parse", "call"}
    /\ facet # NoFacet
    /\ out' = Facet_asdict(facet)
    /\ op' = "asdict"
    /\ UNCHANGED <<facet, facet0, restriction, origin, inp>>

\* Variant().parse(y) for the fragment y that asdict just returned; inp keeps
\* y and the facet that wrote it
ParseBack ==
    /\ op = "asdict"
    /\ origin = "construct"
    /\ out.ret = "return"
    /\ \E p \in {Facet_parse(DefaultFacet(facet.variant), out.val)} :
        /\ out' = [ret |-> p.ret, exc |-> p.exc]
        /\ facet' = IF p.ret = "return" THEN p.obj ELSE facet
    /\ inp' = [self |-> facet, xml |-> out.val]
    /\ op' = "parse"
    /\ origin' = "roundtrip"
    /\ UNCHANGED <<facet0, restriction>>

\* Variant().parse(xml) for a fragment read from a rule document
ParseXml ==
    /\ op = "init"
    /\ \E x \in XmlFragments :
        \E p \in {Facet_parse(DefaultFacet(x[1]), x[2])} :
        /\ inp' = x[2]
        /\ out' = [ret |-> p.ret, exc |-> p.exc]
        /\ facet' = IF p.ret = "return" THEN p.obj ELSE NoFacet
        /\ facet0' = IF p.ret = "return" THEN p.obj ELSE NoFacet
    /\ op' = "parse"
    /\ origin' = "parse"
    /\ UNCHANGED restriction

\* result.to_string() for the Result the call just returned; out keeps the
\* Result as well
ResultToString ==
    /\ op = "call"
    /\ out.ret = "return"
    /\ \E t \in {Result_to_string(inp.self.variant, out.reason)} :
        out' = [ret |-> t.ret, exc |-> t.exc, sentence |-> t, result |-> out]
    /\ op' = "to_string"
    /\ UNCHANGED <<facet, facet0, restriction, origin, inp>>

Next == Construct \/ ParseXml \/ Call \/ Asdict \/ ParseBack \/ ResultToString

Spec == Init /\ [][Next]_vars

(***************************************************************************)
(* Filtering the elements of a model.                                      *)
(***************************************************************************)
MaxElements == 2   \* longest list of elements given to filter

\* the elements of the model that is filtered, in the order of the file
FilterFile ==
    << [BaseElement EXCEPT !.predefined_type = Str("SOLIDWALL"),
                           !.info = <<AttrRec("Name", Str("Foo"), "STRING")>>,
                           !.references = <<Ref(Str("A1"), Str("Uniclass"))>>,
                           !.aggregates = <<"IfcBuilding">>,
                           !.nests = <<"IfcBuilding">>,
                           !.container = "IfcBuilding",
                           !.psets = <<Pset("Pset_WallCommon", 10,
                                            <<Prop("FireRating", TRUE, "IfcLabel", Str("Foo"), 0)>>)>>,
                           !.material = Material("IfcMaterial", Str("Foo"), None, <<>>)],
       [BaseElement EXCEPT !.is_a = "IfcSlab",
                           !.info = <<AttrRec("Name", Str("Bar"), "STRING")>>],
       [BaseElement EXCEPT !.info = <<AttrRec("Name", Float(1000000), "STRING")>>,
                           !.references = <<Ref(Str("B2"), Str("Omni"))>>,
                           !.aggregates = <<"IfcSlab", "IfcBuilding">>,
                           !.psets = <<Pset("Pset_WallCommon", 10,
                                            <<Prop("FireRating", TRUE, "IfcLengthMeasure",
                                                   Float(1000000), 0)>>)>>,
                           !.material = Material("IfcMaterialLayer", Str("Core"), None, <<>>)] >>

\* the lists of at most n elements of the file, in any order
RECURSIVE ElementLists(_)
ElementLists(n) ==
    IF n = 0 THEN {<<>>}
    ELSE ElementLists(n - 1)
         \cup {Append(l, FilterFile[i]) : l \in {x \in ElementLists(n - 1) : Len(x) = n - 1},
                                          i \in 1..Len(FilterFile)}

\* facet.filter(ifc_file, elements)
Filter ==
    /\ op \in {"construct", "parse"}
    /\ facet # NoFacet
    /\ \E elements \in ElementLists(MaxElements) :
        \E r \in {filter(facet, FilterFile, elements)} :
        /\ inp' = [self |-> facet, ifc_file |-> FilterFile, elements |-> elements]
        /\ out' = [ret |-> r.ret, exc |-> r.exc, none |-> r.none, val |-> r.val]
        /\ facet' = r.obj
    /\ op' = "filter"
    /\ UNCHANGED <<facet0, restriction, origin>>

FilterNextStep == Construct \/ ParseXml \/ Filter

FilterSpec == Init /\ [][FilterNextStep]_vars

(***************************************************************************)
(* Describing a facet in words.                                            *)
(***************************************************************************)
\* facets one of whose parameters spells a placeholder of their templates
EchoFacets ==
    {Facet_init("Attribute", <<Val(Str(nv[1])), Val(Str(nv[2])), Val(None), Val(None), Val(None)>>) :
        nv \in {<<"{value}", "Foo">>, <<"Name", "{name}">>}}

\* Attribute(name, value) with such a parameter
ConstructEcho ==
    /\ op = "init"
    /\ \E f \in EchoFacets :
        /\ facet' = f
        /\ facet0' = f
    /\ op' = "construct"
    /\ origin' = "construct"
    /\ inp' = NoInput
    /\ out' = NoOutcome
    /\ UNCHANGED restriction

\* facet.to_string(clause_type)
Describe ==
    /\ op \in {"construct", "parse"}
    /\ facet # NoFacet
    /\ \E clause_type \in ClauseTypes \cup {"specification"} :
        \E t \in {Facet_to_string(facet, clause_type)} :
        /\ inp' = [self |-> facet, clause_type |-> clause_type]
        /\ out' = t
    /\ op' = "describe"
    /\ UNCHANGED <<facet, facet0, restriction, origin>>

TextNext == Construct \/ ConstructEcho \/ ParseXml \/ Describe

TextSpec == Init /\ [][TextNext]_vars

(***************************************************************************)
(* The state machine of a Restriction on its own.                          *)
(***************************************************************************)
\* Restriction(options, type, base)
RInit ==
    /\ op = "init"
    /\ \E a \in RestrictionArgs :
        \E r \in {Restriction_init(a[1][1], a[1][2], a[2])} :
        /\ inp' = a
        /\ out' = r
        /\ restriction' = IF r.ret = "return" THEN r.obj ELSE NoAttrs
        /\ origin' = IF r.ret = "return" THEN "init" ELSE "failed"
    /\ op' = "r_init"
    /\ UNCHANGED <<facet, facet0>>

\* Restriction().parse(ids_dict)
RParse ==
    /\ op = "init"
    /\ \E x \in RestrictionFragments :
        \E r \in {Restriction_parse(DefaultRestriction, x)} :
        /\ inp' = x
        /\ out' = r
        /\ restriction' = IF r.ret = "return" THEN r.obj ELSE NoAttrs
        /\ origin' = IF r.ret = "return" THEN "parse" ELSE "failed"
    /\ op' = "r_parse"
    /\ UNCHANGED <<facet, facet0>>

\* restriction == other
REq ==
    /\ op \in {"r_init", "r_parse", "r_eq"}
    /\ origin \in {"init", "parse"}
    /\ \E other \in MatchCandidates :
        \E e \in {Restriction_eq(restriction, other)} :
        /\ out' = [ret |-> e.ret, exc |-> e.exc, val |-> e.val, other |-> other]
        /\ restriction' = e.obj
    /\ op' = "r_eq"
    /\ UNCHANGED <<facet, facet0, origin, inp>>

\* restriction.asdict()
RAsdict ==
    /\ op \in {"r_init", "r_parse", "r_eq"}
    /\ origin \in {"init", "parse"}
    /\ out' = Restriction_asdict(restriction)
    /\ op' = "r_asdict"
    /\ UNCHANGED <<facet, facet0, restriction, origin, inp>>

RNext == RInit \/ RParse \/ REq \/ RAsdict

RestrictionSpec == Init /\ [][RNext]_vars

(***************************************************************************)
(* Properties of the cardinality prologue and epilogue.                    *)
(***************************************************************************)
\* the facet with minOccurs and maxOccurs both unset (None)
Plain(self) ==
    [self EXCEPT !.attrs["minOccurs"] = Val(None), !.attrs["maxOccurs"] = Val(None)]

\* the last operation was facet(inst) on a facet with maxOccurs == 0
ProhibitedCall == op = "call" /\ IsZero(inp.self.attrs["maxOccurs"])

\* the last operation was facet(inst) on a facet with minOccurs == 0 and
\* maxOccurs != 0
OptionalCall ==
    /\ op = "call"
    /\ IsZero(inp.self.attrs["minOccurs"])
    /\ ~IsZero(inp.self.attrs["maxOccurs"])

\* C1 as stated: a call of any facet with maxOccurs == 0 returns a Result
\* whose is_pass is the negation of the is_pass that the same facet with
\* maxOccurs unset returns on the same element, with reason PROHIBITED.
C1_Original ==
    ProhibitedCall =>
        LET base == Facet_call([inp.self EXCEPT !.attrs["maxOccurs"] = Val(None)], inp.inst)
        IN /\ out.ret = "return"
           /\ base.ret = "return"
           /\ out.is_pass = ~base.is_pass
           /\ out.reason = Reason("PROHIBITED")

\* C1 amended: for the five variants that take cardinalities (Attribute,
\* Classification, PartOf, Property, Material) a call with maxOccurs == 0
\* raises exactly when the same facet with minOccurs and maxOccurs both
\* unset raises on the same element (and raises the same error); otherwise
\* it returns a Result whose is_pass is the negation of the is_pass of that
\* evaluation, with reason PROHIBITED.
C1_Amended ==
    ProhibitedCall /\ inp.self.variant # "Entity" =>
        LET base == Facet_call(Plain(inp.self), inp.inst)
        IN /\ out.ret = base.ret
           /\ out.exc = base.exc
           /\ out.ret = "return" =>
                /\ out.is_pass = ~base.is_pass
                /\ out.reason = Reason("PROHIBITED")

\* a facet with minOccurs == 0 and maxOccurs == 0 was called on an element
\* that fails the underlying evaluation, and the call passed as PROHIBITED
C1_Witness ==
    /\ ProhibitedCall
    /\ inp.self.variant = "Attribute"
    /\ IsZero(inp.self.attrs["minOccurs"])
    /\ out.ret = "return"
    /\ out.is_pass
    /\ out.reason = Reason("PROHIBITED")
    /\ ~Facet_call(Plain(inp.self), inp.inst).is_pass

\* C2 as stated: a call of any facet with minOccurs == 0 and maxOccurs != 0
\* returns a passing Result and reads nothing from the element.
C2_Original ==
    OptionalCall =>
        /\ out.ret = "return"
        /\ out.is_pass
        /\ out.reads = {}
        /\ out.cmps = {}

\* C2 amended: for the five variants that take cardinalities (Attribute,
\* Classification, PartOf, Property, Material), a call with minOccurs == 0
\* and maxOccurs != 0 returns a passing Result with no reason, reads
\* nothing from the element and compares no value of it.
C2_Amended ==
    OptionalCall /\ inp.self.variant # "Entity" =>
        /\ out.ret = "return"
        /\ out.is_pass
        /\ ~out.reason.present
        /\ out.reads = {}
        /\ out.cmps = {}

\* an optional facet passed on an element on which the same facet without
\* cardinalities fails or raises
C2_Witness ==
    /\ OptionalCall
    /\ inp.self.variant \in {"PartOf", "Material", "Property"}
    /\ out.ret = "return"
    /\ out.is_pass
    /\ LET base == Facet_call(Plain(inp.self), inp.inst)
       IN base.ret = "raise" \/ ~base.is_pass

\* C3 as stated: calling a facet on an element never raises; every call
\* returns a Result.
C3_NeverRaises == op = "call" => out.ret = "return"

\* C4: every Result that a facet call returns with is_pass == False carries
\* a reason with a "type" tag.
C4_FailureHasReason ==
    op = "call" /\ out.ret = "return" /\ ~out.is_pass =>
        out.reason.present /\ out.reason.type # ""

\* a Property call failed on a value comparison, with the reason VALUE
C4_Witness ==
    /\ op = "call"
    /\ inp.self.variant = "Property"
    /\ out.ret = "return"
    /\ ~out.is_pass
    /\ out.reason.present
    /\ out.reason.type = "VALUE"

(***************************************************************************)
(* The numeric value comparison.                                           *)
(***************************************************************************)
\* |candidate - expected| <= 1e-6 * |expected|, multiplied out by 10^6
Within(candidate, expected) ==
    LET d == candidate - expected
        ad == IF d < 0 THEN -d ELSE d
        dd == IF ad > Clamp THEN Clamp + 1 ELSE ad
        ae == IF expected < 0 THEN -expected ELSE expected
    IN dd * Million <= ae

\* expected is a plain string that spells a float, and no cardinality is set
FloatExpected(self) ==
    /\ IsStr(self.attrs["value"])
    /\ IsFloatLit(self.attrs["value"].v.s)
    /\ self.attrs["minOccurs"] = Val(None)
    /\ self.attrs["maxOccurs"] = Val(None)

\* an Attribute call that compares the one float value of Name with expected
AttributeFloatCall ==
    /\ op = "call"
    /\ inp.self.variant = "Attribute"
    /\ IsStr(inp.self.attrs["name"])
    /\ inp.self.attrs["name"].v.s = "Name"
    /\ FloatExpected(inp.self)
    /\ ~inp.inst.has_type
    /\ Len(inp.inst.info) = 1
    /\ inp.inst.info[1].name = "Name"
    /\ inp.inst.info[1].kind = "STRING"
    /\ inp.inst.info[1].value.t = "float"

\* a Property call that compares the one float property of the one property
\* set with expected
PropertyFloatCall ==
    /\ op = "call"
    /\ inp.self.variant = "Property"
    /\ IsStr(inp.self.attrs["propertySet"])
    /\ IsStr(inp.self.attrs["name"])
    /\ FloatExpected(inp.self)
    /\ Len(inp.inst.psets) = 1
    /\ inp.inst.psets[1].name = inp.self.attrs["propertySet"].v.s
    /\ Len(inp.inst.psets[1].props) = 1
    /\ inp.inst.psets[1].props[1].Name = inp.self.attrs["name"].v.s
    /\ inp.inst.psets[1].props[1].single
    /\ inp.self.attrs["measure"] = Val(Str(inp.inst.psets[1].props[1].nominal))
    /\ inp.inst.psets[1].props[1].factor = 0
    /\ inp.inst.psets[1].props[1].wrapped.t = "float"

\* C5 as stated: with a plain-string expected value and a float candidate,
\* the Attribute and the Property value comparison pass iff the candidate is
\* within 1e-6 relative tolerance of the cast expected value, for negative
\* expected values and zero too.
C5_Tolerance ==
    /\ AttributeFloatCall =>
        /\ out.ret = "return"
        /\ out.is_pass <=> Within(inp.inst.info[1].value.n,
                                  FloatOf(inp.self.attrs["value"].v.s))
    /\ PropertyFloatCall =>
        /\ out.ret = "return"
        /\ out.is_pass <=> Within(inp.inst.psets[1].props[1].wrapped.n,
                                  FloatOf(inp.self.attrs["value"].v.s))

\* C5 for expected values that are not negative: what the code does satisfy
C5_NonNegative ==
    /\ AttributeFloatCall /\ FloatOf(inp.self.attrs["value"].v.s) >= 0 =>
        /\ out.ret = "return"
        /\ out.is_pass <=> Within(inp.inst.info[1].value.n,
                                  FloatOf(inp.self.attrs["value"].v.s))
    /\ PropertyFloatCall /\ FloatOf(inp.self.attrs["value"].v.s) >= 0 =>
        /\ out.ret = "return"
        /\ out.is_pass <=> Within(inp.inst.psets[1].props[1].wrapped.n,
                                  FloatOf(inp.self.attrs["value"].v.s))

(***************************************************************************)
(* Round trips.                                                            *)
(***************************************************************************)
\* C6 as stated: for every restriction fragment x with a base,
\* Restriction().parse(x) completes, and asdict() of the parsed Restriction
\* completes and returns a fragment with the keys and the values of x.
C6_RestrictionRoundTrip ==
    /\ op = "r_parse" /\ HasKey(inp, "@base") => out.ret = "return"
    /\ op = "r_asdict" /\ origin = "parse" /\ HasKey(inp, "@base") =>
        /\ out.ret = "return"
        /\ DictEq(out.val, inp)

\* the parameters of two facets of one variant are equal
SameParameters(a, b) ==
    \A i \in 1..Len(Parameters(a.variant)) :
        a.attrs[StripAt(Parameters(a.variant)[i])] = b.attrs[StripAt(Parameters(a.variant)[i])]

\* C7 as stated: parsing the fragment y that a facet's asdict() returned into
\* a fresh facet of the variant completes and restores the parameters of
\* the facet, and asdict() of the parsed facet completes and returns y.
C7_FacetRoundTrip ==
    /\ op = "parse" /\ origin = "roundtrip" =>
        /\ out.ret = "return"
        /\ SameParameters(inp.self, facet)
    /\ op = "asdict" /\ origin = "roundtrip" =>
        /\ out.ret = "return"
        /\ DictEq(out.val, inp.xml)

(***************************************************************************)
(* Restriction construction and matching.                                  *)
(***************************************************************************)
\* the shape of options that a kind needs
ShapeAgrees(type, options) ==
    \/ type \in {"enumeration", "length"} /\ options.k = "list"
    \/ type = "bounds" /\ options.k = "dict"
    \/ type = "pattern" /\ options.k = "str"

\* C8 as stated: Restriction(options, type, base) raises when the kind does
\* not agree with the shape of options or is none of the four kinds, and an
\* object it returns has its kind, base and options set.
C8_ConstructionValidates ==
    op = "r_init" =>
        /\ ~ShapeAgrees(inp[1][2], inp[1][1]) => out.ret = "raise"
        /\ out.ret = "return" =>
            /\ out.obj.init
            /\ out.obj.type = inp[1][2]
            /\ out.obj.base = inp[2]
            /\ out.obj.options = inp[1][1]

\* C9 as stated: an enumeration Restriction of a boolean base, constructed
\* (base "bool") or parsed (@base "xs:boolean"), matches a candidate iff the
\* lower-cased str() of the candidate equals the lower-cased form of an
\* option.
C9_BooleanCaseInsensitive ==
    /\ op = "r_eq"
    /\ restriction.init
    /\ restriction.type = "enumeration"
    /\ restriction.base \in {"bool", "boolean"}
    => /\ out.ret = "return"
       /\ out.val <=> InSeq(Lower(PyStr(out.other)), LowerAll(restriction.options.l))

(***************************************************************************)
(* Frame of an evaluation.                                                 *)
(***************************************************************************)
\* C10 as stated: a facet call leaves every parameter of the facet and every
\* field of its Restrictions as it was before the call.
C10_CallIsReadOnly == op = "call" => facet = inp.self

(***************************************************************************)
(* Result.to_string.                                                       *)
(***************************************************************************)
\* C11: for every failing Result of any variant, to_string() returns (it does
\* not raise) a sentence that is not absent, not empty and not the
\* placeholder "TODO".
C11_FailureExplained ==
    (op = "to_string" /\ ~out.result.is_pass) =>
        /\ out.ret = "return"
        /\ out.sentence.some
        /\ out.sentence.text # ""
        /\ out.sentence.text # "TODO"

(***************************************************************************)
(* filter.                                                                 *)
(***************************************************************************)
\* the facet passes the element
Passes(self, inst) ==
    /\ Facet_call(self, inst).ret = "return"
    /\ Facet_call(self, inst).is_pass

\* C12: filter returns a list for every variant (never an absent value, and
\* it does not raise); for the variants other than Entity and Classification
\* the list is the given elements that pass the facet, in their order.
C12_FilterKeepsPassing ==
    op = "filter" =>
        /\ out.ret = "return"
        /\ ~out.none
        /\ inp.self.variant \notin {"Entity", "Classification"} =>
               out.val = SelectSeq(inp.elements, LAMBDA e : Passes(inp.self, e))

(***************************************************************************)
(* Facet.to_string.                                                        *)
(***************************************************************************)
\* the parameter a placeholder names
KeyOf(piece) == CHOOSE a \in AttrNames : KeyVariable(a) = piece

\* every placeholder of the template names a parameter that is present
AllPresent(self, template) ==
    \A j \in 1..Len(template) :
        template[j] \in KeyVariables => NotNone(self.attrs[KeyOf(template[j])])

\* the template with every placeholder replaced by the string form of its
\* parameter
RECURSIVE Substituted(_, _)
Substituted(self, template) ==
    IF Len(template) = 0 THEN <<>>
    ELSE (IF Head(template) \in KeyVariables
          THEN (IF SlotStr(self.attrs[KeyOf(Head(template))]).ret = "return"
                THEN SlotStr(self.attrs[KeyOf(Head(template))]).val ELSE <<>>)
          ELSE <<Head(template)>>)
         \o Substituted(self, Tail(template))

\* C13: to_string(clause_type) returns the first template of the clause type
\* all of whose placeholders name present parameters, with every placeholder
\* replaced by the string form of its parameter and no placeholder left in
\* the text; when no template is such, none is returned.
C13_FirstFullTemplate ==
    (op = "describe" /\ inp.clause_type \in ClauseTypes) =>
        LET templates == Templates(inp.self.variant, inp.clause_type)
            fit == {i \in 1..Len(templates) : AllPresent(inp.self, templates[i])}
        IN /\ out.ret = "return"
           /\ fit = {} => out.none
           /\ fit # {} =>
                LET first == CHOOSE i \in fit : \A j \in fit : i <= j
                IN /\ ~out.none
                   /\ out.val = Substituted(inp.self, templates[first])
                   /\ \A j \in 1..Len(out.val) : out.val[j] \notin KeyVariables

(***************************************************************************)
(* Entity evaluation.                                                      *)
(***************************************************************************)
\* the last operation was the call of an Entity facet
EntityCall == op = "call" /\ inp.self.variant = "Entity"

\* the element's declared type, upper-cased, equals name
ClassMatches == ParamEq(inp.self.attrs["name"], Str(Upper(inp.inst.is_a))).val

\* the element's resolved predefined type equals predefinedType
TypeMatches == ParamEq(inp.self.attrs["predefinedType"], inp.inst.predefined_type).val

\* C14: an Entity facet passes an element iff the element's upper-cased
\* declared type equals name and, when predefinedType is set, its resolved
\* predefined type equals predefinedType; a class mismatch gives the reason
\* NAME with the upper-cased type, a predefined-type mismatch the reason
\* PREDEFINEDTYPE with the resolved type, and a passing Result has no reason.
C14_EntityEvaluation ==
    EntityCall =>
        /\ out.ret = "return"
        /\ out.is_pass <=>
              (ClassMatches /\ (NotNone(inp.self.attrs["predefinedType"]) => TypeMatches))
        /\ ~ClassMatches => out.reason = ReasonActual("NAME", Str(Upper(inp.inst.is_a)))
        /\ (ClassMatches /\ NotNone(inp.self.attrs["predefinedType"]) /\ ~TypeMatches) =>
              out.reason = ReasonActual("PREDEFINEDTYPE", inp.inst.predefined_type)
        /\ out.is_pass => out.reason = NoReason

\* an Entity facet with a predefined type fails an element of the right class
\* and another predefined type
C14_Witness ==
    /\ EntityCall
    /\ ClassMatches
    /\ IsStr(inp.self.attrs["predefinedType"])
    /\ inp.inst.predefined_type = Str("Foo")
    /\ out.ret = "return"
    /\ ~out.is_pass
    /\ out.reason = ReasonActual("PREDEFINEDTYPE", Str("Foo"))

(***************************************************************************)
(* Boolean candidates.                                                     *)
(***************************************************************************)
\* an Attribute call, no cardinality set, that compares the one value of
\* Name, a bool, with a plain string other than "TRUE" and "FALSE"
AttributeBoolCall ==
    /\ op = "call"
    /\ inp.self.variant = "Attribute"
    /\ IsStr(inp.self.attrs["name"])
    /\ inp.self.attrs["name"].v.s = "Name"
    /\ IsStr(inp.self.attrs["value"])
    /\ inp.self.attrs["value"].v.s \notin {"", "TRUE", "FALSE"}
    /\ inp.self.attrs["minOccurs"] = Val(None)
    /\ inp.self.attrs["maxOccurs"] = Val(None)
    /\ ~inp.inst.has_type
    /\ Len(inp.inst.info) = 1
    /\ inp.inst.info[1].name = "Name"
    /\ inp.inst.info[1].kind = "STRING"
    /\ inp.inst.info[1].value.t = "bool"

\* C15: for a literal other than "TRUE" and "FALSE" cast_to_value yields no
\* boolean for a boolean candidate, and the candidate does not match the
\* literal in the value comparison.
C15_OnlyBooleanLiterals ==
    AttributeBoolCall =>
        /\ cast_to_value(inp.self.attrs["value"].v.s, inp.inst.info[1].value).val.t # "bool"
        /\ out.ret = "return"
        /\ ~out.is_pass

(***************************************************************************)
(* The PartOf ancestor walk.                                               *)
(***************************************************************************)
\* the last operation was the call of a PartOf facet with relation
\* aggregation or nesting and entity given
WalkCall ==
    /\ op = "call"
    /\ inp.self.variant = "PartOf"
    /\ RelationIs(inp.self, "IfcRelAggregates") \/ RelationIs(inp.self, "IfcRelNests")
    /\ SlotTruthy(inp.self.attrs["entity"])

\* the chain of ancestors the relation gives: the parent first
WalkChain ==
    IF RelationIs(inp.self, "IfcRelAggregates") THEN inp.inst.aggregates ELSE inp.inst.nests

\* ancestor i has the requested type
AncestorMatches(i) == ParamEq(inp.self.attrs["entity"], Str(Upper(WalkChain[i]))).val

\* what the walk is said to give
WalkOutcome ==
    /\ out.ret = "return"
    /\ Len(WalkChain) = 0 =>
          /\ ~out.is_pass
          /\ out.reason = Reason(IF RelationIs(inp.self, "IfcRelAggregates")
                                 THEN "RELATION" ELSE "NOVALUE")
    /\ Len(WalkChain) > 0 =>
          /\ out.is_pass <=> \E i \in 1..Len(WalkChain) : AncestorMatches(i)
          /\ \A i \in 1..Len(WalkChain) :
                (AncestorMatches(i) /\ \A j \in 1..(i - 1) : ~AncestorMatches(j)) =>
                    out.cmps = {<<"entity", Str(Upper(WalkChain[j]))>> : j \in 1..i}
          /\ ~out.is_pass =>
                out.reason = ReasonList("ENTITY", [i \in 1..Len(WalkChain) |-> Str(WalkChain[i])])

\* C16 as stated, for every PartOf facet with relation aggregation or nesting
\* and entity given: the Result passes iff some ancestor has the requested
\* type, the walk stops at the first match, an exhausted chain gives ENTITY
\* with all ancestor types in walk order, and no parent gives RELATION
\* (aggregation) or NOVALUE (nesting).
C16_Original == WalkCall => WalkOutcome

\* C16 for the facets that are neither optional nor prohibited: the same
\* outcome of the walk.
C16_Amended ==
    (WalkCall /\ ~IsOptional(inp.self) /\ ~IsZero(inp.self.attrs["maxOccurs"])) => WalkOutcome

\* a walk over two ancestors that fails with both of their types
C16_Witness ==
    /\ WalkCall
    /\ ~IsOptional(inp.self)
    /\ ~IsZero(inp.self.attrs["maxOccurs"])
    /\ WalkChain = <<"IfcSlab", "IfcSlab">>
    /\ out.ret = "return"
    /\ ~out.is_pass
    /\ out.reason = ReasonList("ENTITY", <<Str("IfcSlab"), Str("IfcSlab")>>)

(***************************************************************************)
(* The checks of Attribute on the candidates.                              *)
(***************************************************************************)
\* the last operation was the call of an Attribute facet that is neither
\* optional nor prohibited
AttributeCheckCall ==
    /\ op = "call"
    /\ inp.self.variant = "Attribute"
    /\ ~IsOptional(inp.self)
    /\ ~IsZero(inp.self.attrs["maxOccurs"])

\* the candidates resolved for the facet's name on the element and its type
Resolved == AttributeCandidates(inp.self, inp.inst)

\* candidate i is absent, an empty string, an empty sequence or an UNKNOWN
\* logical value
Offending(i) ==
    \/ Resolved[i].value = None
    \/ Resolved[i].value = Str("")
    \/ Resolved[i].value = EmptyTuple
    \/ Resolved[i].value = Str("UNKNOWN") /\ KindOf(inp.inst, Resolved[i].name) = "LOGICAL"

\* C17: an Attribute facet (not optional, maxOccurs != 0) fails with NOVALUE
\* when no candidate is resolved, and with FALSEY and the actual value of the
\* first candidate in order that is absent, "", () or an UNKNOWN logical; in
\* both cases nothing was compared with the expected value.
C17_CandidateChecks ==
    AttributeCheckCall =>
        /\ Len(Resolved) = 0 =>
              /\ out.ret = "return"
              /\ ~out.is_pass
              /\ out.reason = Reason("NOVALUE")
              /\ ~\E c \in out.cmps : c[1] = "value"
        /\ \A i \in 1..Len(Resolved) :
              (Offending(i) /\ \A j \in 1..(i - 1) : ~Offending(j)) =>
                  /\ out.ret = "return"
                  /\ ~out.is_pass
                  /\ out.reason = ReasonActual("FALSEY", Resolved[i].value)
                  /\ ~\E c \in out.cmps : c[1] = "value"

\* a facet with an expected value fails with FALSEY on the second of two
\* candidates, the first one being a usable value
C17_Witness ==
    /\ AttributeCheckCall
    /\ SlotTruthy(inp.self.attrs["value"])
    /\ Len(Resolved) = 2
    /\ ~Offending(1)
    /\ Offending(2)
    /\ out.ret = "return"
    /\ ~out.is_pass
    /\ out.reason = ReasonActual("FALSEY", Str(""))

\* a facet fails with NOVALUE on an element that has none of the names
C17_WitnessNoValue ==
    /\ AttributeCheckCall
    /\ Len(Resolved) = 0
    /\ out.ret = "return"
    /\ out.reason = Reason("NOVALUE")

(***************************************************************************)
(* Property without measure.                                               *)
(***************************************************************************)
\* the last operation was the call of a Property facet built without
\* measure that is neither optional nor prohibited
PropertyNoMeasureCall ==
    /\ op = "call"
    /\ inp.self.variant = "Property"
    /\ inp.self.attrs["measure"] = Val(None)
    /\ ~IsOptional(inp.self)
    /\ ~IsZero(inp.self.attrs["maxOccurs"])

\* the property sets of the element selected by propertySet, in order
SelectedPsets ==
    SelectSeq(inp.inst.psets,
              LAMBDA ps : ParamEq(inp.self.attrs["propertySet"], Str(ps.name)).val)

\* the resolved single-value properties with a nominal value of the k-th
\* selected property set, in the order of its HasProperties
SingleValued(k) ==
    SelectSeq(SelectedPsets[k].props,
              LAMBDA e : /\ e.single
                         /\ e.nominal # ""
                         /\ \E i \in 1..Len(ResolvedProps(inp.self, SelectedPsets[k])) :
                               ResolvedProps(inp.self, SelectedPsets[k])[i].name = e.Name)

\* the call failed with MEASURE and the declared tag
FailsMeasure(tag) ==
    /\ out.ret = "return"
    /\ ~out.is_pass
    /\ out.reason = ReasonActual("MEASURE", Str(tag))

get_aggregate(chain, back, i) == IF i < Len(chain) THEN i + 1 ELSE back

\* for rel in element.Nests: return rel.RelatingObject
get_nested_whole(chain, back, i) == IF i < Len(chain) THEN i + 1 ELSE back

\* a lookup that remembers the ancestors it gave and gives none of them twice
Whole_Visited(self, inst, back, i) ==
    IF RelationIs(self, "IfcRelAggregates")
    THEN (IF i < Len(inst.aggregates) THEN i + 1 ELSE 0)
    ELSE (IF i < Len(inst.nests) THEN i + 1 ELSE 0)

\* the whole of the ancestor at position i in the relation of the facet
Whole(self, inst, back, i) ==
    IF RelationIs(self, "IfcRelAggregates")
    THEN get_aggregate(inst.aggregates, back, i)
    ELSE get_nested_whole(inst.nests, back, i)

\* the ancestors of the element in the relation of the facet
WholeChain(self, inst) ==
    IF RelationIs(self, "IfcRelAggregates") THEN inst.aggregates ELSE inst.nests

\* the state of a call: where it is (pc), the ancestor at hand, the local
\* variables and the number of passes made
WalkState(ret, exc, pc, whole, ancestors, is_pass, reason, steps) ==
    [ret |-> ret, exc |-> exc, pc |-> pc, whole |-> whole, ancestors |-> ancestors,
     is_pass |-> is_pass, reason |-> reason, steps |-> steps]

\* the call returns r
WalkDone(r, ancestors, steps) ==
    WalkState(r.ret, r.exc, "done", 0, ancestors, r.is_pass, r.reason, steps)

\* facet(inst) up to the while loop
WalkBegin ==
    /\ op = "construct"
    /\ facet.variant = "PartOf"
    /\ RelationIs(facet, "IfcRelAggregates") \/ RelationIs(facet, "IfcRelNests")
    /\ \E c \in Chains(MaxChain) : \E back \in 0..Len(c) :
        LET inst == [BaseElement EXCEPT !.aggregates = c, !.nests = c]
            whole == Whole(facet, inst, back, 0)
            noparent == IF RelationIs(facet, "IfcRelAggregates") THEN "RELATION" ELSE "NOVALUE"
        IN
        /\ inp' = [self |-> facet, inst |-> inst, back |-> back]
        /\ out' = IF IsOptional(facet) THEN WalkDone(Result(TRUE, NoReason, {}, {}), <<>>, 0)
                  ELSE IF whole = 0
                  THEN WalkDone(Finish(facet, FALSE, Reason(noparent), {}, {}), <<>>, 0)
                  ELSE IF ~SlotTruthy(facet.attrs["entity"])
                  THEN WalkDone(Finish(facet, TRUE, NoReason, {}, {}), <<>>, 0)
                  ELSE WalkState("none", "", "while", whole, <<>>, FALSE, NoReason, 0)
    /\ op' = "walk"
    /\ UNCHANGED <<facet, facet0, restriction, origin>>

\* one pass of the while loop: the type of the ancestor is recorded and
\* compared with entity, and the walk goes on to its whole
WalkStep ==
    /\ op = "walk"
    /\ out.pc = "while"
    /\ out.whole # 0
    /\ LET is_a == WholeChain(inp.self, inp.inst)[out.whole]
           e == ParamEq(facet.attrs["entity"], Str(Upper(is_a)))
           ancestors == IF Len(out.ancestors) < MaxSteps
                        THEN Append(out.ancestors, Str(is_a)) ELSE out.ancestors
           steps == IF out.steps < MaxSteps THEN out.steps + 1 ELSE out.steps
       IN
       /\ out' = IF e.ret = "raise"
                 THEN WalkDone(Raised(e.exc, {}, {}), ancestors, steps)
                 ELSE IF e.val
                 THEN WalkState("none", "", "break", out.whole, ancestors, TRUE, NoReason, steps)
                 ELSE WalkState("none", "", "while",
                                Whole(inp.self, inp.inst, inp.back, out.whole),
                                ancestors, FALSE, NoReason, steps)
       /\ facet' = FacetAfter(facet, {<<"entity", Str(Upper(is_a))>>})
    /\ UNCHANGED <<op, facet0, restriction, origin, inp>>

\* the loop is left, by break or with no ancestor at hand, and the call returns
WalkReturn ==
    /\ op = "walk"
    /\ out.pc = "break" \/ (out.pc = "while" /\ out.whole = 0)
    /\ out' = WalkDone(Finish(facet, out.is_pass,
                              IF out.is_pass THEN NoReason
                              ELSE ReasonList("ENTITY", out.ancestors), {}, {}),
                       out.ancestors, out.steps)
    /\ UNCHANGED <<op, facet, facet0, restriction, origin, inp>>

WalkNext == Construct \/ WalkBegin \/ WalkStep \/ WalkReturn

WalkSpec == Init /\ [][WalkNext]_vars

\* a call that was begun goes on: the interpreter runs the loop and the
\* return whenever they can be run
WalkFairSpec == WalkSpec /\ WF_vars(WalkStep) /\ WF_vars(WalkReturn)

(***************************************************************************)
(* Termination of the ancestor walk.                                       *)
(***************************************************************************)
\* a call with entity given was begun
WalkBegun == op = "walk" /\ SlotTruthy(inp.self.attrs["entity"])

\* the ancestors of the element of the call
Ancestors == WholeChain(inp.self, inp.inst)

\* the ancestor at position i has the requested type
Requested(i) == ParamEq(inp.self.attrs["entity"], Str(Upper(Ancestors[i]))).val

\* the call is over, by return or by an exception
WalkOver == op = "walk" /\ out.pc = "done"

\* a finite chain without cycle is walked in at most as many passes as it
\* has ancestors
WithinChain == (WalkBegun /\ inp.back = 0) => out.steps <= Len(Ancestors)

\* C19 as stated: on a finite chain without cycle the evaluation is over
\* after at most as many passes as the chain is long; with a cycle none of
\* whose members has the requested type the walk is never over.
C19_Original ==
    /\ []WithinChain
    /\ (WalkBegun /\ inp.back = 0) ~> WalkOver
    /\ []((/\ WalkBegun
            /\ inp.back # 0
            /\ \A i \in inp.back..Len(Ancestors) : ~Requested(i)) => ~WalkOver)

\* C19: on a finite chain without cycle the evaluation is over after at most
\* as many passes as the chain is long; when the facet is not optional, the
\* chain of the element runs into a cycle and no ancestor, before the cycle or
\* on it, has the requested type, the walk is never over.
C19_Amended ==
    /\ []WithinChain
    /\ (WalkBegun /\ inp.back = 0) ~> WalkOver
    /\ []((/\ WalkBegun
            /\ ~IsOptional(inp.self)
            /\ inp.back # 0
            /\ \A i \in 1..Len(Ancestors) : ~Requested(i)) => ~WalkOver)

\* the walk has gone round a cycle without a match: it made more passes than
\* there are ancestors and is still in the loop
C19_Witness ==
    /\ WalkBegun
    /\ inp.back # 0
    /\ \A i \in 1..Len(Ancestors) : ~Requested(i)
    /\ out.pc = "while"
    /\ out.steps > Len(Ancestors)

\* a chain of two ancestors without cycle was walked to its end in two passes
C19_WitnessFinite ==
    /\ WalkBegun
    /\ inp.back = 0
    /\ Len(Ancestors) = 2
    /\ WalkOver
    /\ out.steps = 2
    /\ out.reason = ReasonList("ENTITY", <<Str(Ancestors[1]), Str(Ancestors[2])>>)

====
